---- MODULE Spec2Model ----
(***************************************************************************)
(* A model of the md-browse backend (server.js): the JSON tables, the      *)
(* upload directory and the request handlers that read and write them.     *)
(*                                                                         *)
(* Every handler is a chain of awaited I/O operations.  Step(w, l) is one  *)
(* such operation of the request whose locals are l, on the stores w; Run  *)
(* applies Step until the response is sent.  The sequential specification  *)
(* Spec runs one request at a time to completion; SpecConc interleaves the *)
(* steps of the requests in flight, as the event loop does at each await;  *)
(* SpecAuth adds agent tokens and a clock that moves; SpecFault serves     *)
(* requests while the audit log cannot be written; SpecTree builds and     *)
(* changes the folder tree one request at a time, and SpecTreeConc         *)
(* interleaves the steps of two requests on the tree; SpecChunk uploads    *)
(* and edits one document, whose body the chunks endpoint cuts; SpecFrame  *)
(* builds stores with documents, folders and tokens to reject requests on; *)
(* SpecRace interleaves two requests on one document.                      *)
(***************************************************************************)
EXTENDS Integers, Sequences, FiniteSets, TLC

VARIABLES
  metadata,          \* metadata.json: document id -> document record
  versions,          \* versions.json: document id -> sequence of version rows
  folders,           \* folders.json: folder id -> folder record
  agent_tokens,      \* agent_tokens.json: token id -> token record
  audit_logs,        \* audit_logs.json: sequence of audit entries
  idempotency_keys,  \* idempotency_keys.json: key -> stored response
  shares,            \* shares.json: share id -> share record
  disk,              \* data/uploads: [files: path -> text, dirs: set of paths]
  uuids,             \* how many ids uuidv4() has handed out, per kind of record
  now,               \* the clock new Date() reads
  procs              \* the requests in flight: slot -> locals of its handler

vars == <<metadata, versions, folders, agent_tokens, audit_logs,
          idempotency_keys, shares, disk, uuids, now, procs>>

----------------------------------------------------------------------------
(* Bounds of the model. *)

MaxDocs == 2
MaxVersions == 3
MaxAudit == 3
MaxFolders == 3
MaxTokens == 2
MaxClock == 3
MaxOps == 5
MaxLines == 3

----------------------------------------------------------------------------
(* Values. *)

NULL == "null"
UNDEF == "undefined"
NoKey == ""               \* no Idempotency-Key header

EmptyMap == [x \in {} |-> x]

Put(m, k, v) == [x \in DOMAIN m \cup {k} |-> IF x = k THEN v ELSE m[x]]

Remove(m, k) == [x \in DOMAIN m \ {k} |-> m[x]]

Has(m, k) == k \in DOMAIN m

DocId(i) == "d" \o ToString(i)

FolderId(i) == "f" \o ToString(i)

DocIds == {DocId(i) : i \in 1..MaxDocs}

(* A line of markdown: an ATX heading of a level 1..6 ("## text"), or     *)
(* plain text (level 0).                                                   *)
Line(level, text) == [level |-> level, text |-> text]

(* line.length *)
LineLen(ln) == IF ln.level = 0 THEN Len(ln.text) ELSE ln.level + 1 + Len(ln.text)

RECURSIVE LinesLen(_)
LinesLen(lines) ==
  IF lines = <<>> THEN 0 ELSE LineLen(Head(lines)) + LinesLen(Tail(lines))

(* lines.join('\n').length *)
JoinLen(lines) == IF lines = <<>> THEN 0 ELSE LinesLen(lines) + Len(lines) - 1

(* A markdown text: its front matter (key -> value, empty when the text    *)
(* has none) and the lines of the body that follows it.                    *)
Text(fm, lines) == [fm |-> fm, lines |-> lines]

NoText == Text(EmptyMap, <<Line(0, "")>>)

RECURSIVE SumLen(_, _)
SumLen(fm, keys) ==
  IF keys = {} THEN 0
  ELSE LET k == CHOOSE x \in keys : TRUE
       IN Len(k) + 2 + Len(fm[k]) + 1 + SumLen(fm, keys \ {k})

(* text.length: the "---" fences, one "key: value" line per key, the body. *)
TextLen(t) ==
  (IF DOMAIN t.fm = {} THEN 0 ELSE 8 + SumLen(t.fm, DOMAIN t.fm)) + JoinLen(t.lines)

(* gray-matter: the front matter as data, the rest as content. *)
matter(t) == [data |-> t.fm, content |-> Text(EmptyMap, t.lines)]

(* crypto's SHA-256, collision free on the values of the model. *)
sha256(t) == <<"sha256", t>>

(* An estimate that rounds down. *)
tokenEstimateFloor(len) == len \div 4

(* Math.ceil(text.length / 4) *)
tokenEstimate(len) == (len + 3) \div 4

----------------------------------------------------------------------------
(* The upload directory.  A path is the sequence of its components; the    *)
(* file of document id is the component id (for `${id}.md`).               *)

IsPrefix(p, q) == Len(p) <= Len(q) /\ SubSeq(q, 1, Len(p)) = p

Parent(p) == SubSeq(p, 1, Len(p) - 1)

Basename(p) == p[Len(p)]

Prefixes(p) == {SubSeq(p, 1, n) : n \in 0..Len(p)}

Exists(d, p) == p \in d.dirs \/ p \in DOMAIN d.files

(* fs.writeFile: fails when the directory is missing or the path is one. *)
CanWriteFile(d, p) == Parent(p) \in d.dirs /\ p \notin d.dirs

(* A write that leaves a file that exists as it is. *)
WriteFileOnce(d, p, t) ==
  IF p \in DOMAIN d.files THEN d ELSE [d EXCEPT !.files = Put(d.files, p, t)]

(* fs.writeFile *)
WriteFile(d, p, t) == [d EXCEPT !.files = Put(d.files, p, t)]

(* fs.mkdir(..., {recursive: true}) *)
Mkdir(d, p) == [d EXCEPT !.dirs = d.dirs \cup Prefixes(p)]

(* fs.rename. A file replaces the file at the new path; a directory moves  *)
(* with all it holds, and may replace only an empty directory.             *)
CanRename(d, old, new) ==
  /\ Exists(d, old)
  /\ Parent(new) \in d.dirs
  /\ ~IsPrefix(old, Parent(new))
  /\ old \in DOMAIN d.files => new \notin d.dirs
  /\ old \in d.dirs =>
       /\ new \notin DOMAIN d.files
       /\ \A q \in d.dirs \cup DOMAIN d.files : IsPrefix(new, q) => q = new

Moved(old, new, q) == new \o SubSeq(q, Len(old) + 1, Len(q))

Rename(d, old, new) ==
  IF old = new THEN d
  ELSE LET under(q) == IsPrefix(old, q)
           keepD == {q \in d.dirs : ~under(q)}
           keepF == {q \in DOMAIN d.files : ~under(q) /\ q # new}
           movD  == {q \in d.dirs : under(q)}
           movF  == {q \in DOMAIN d.files : under(q)}
       IN [dirs  |-> keepD \cup {Moved(old, new, q) : q \in movD},
           files |-> [q \in keepF \cup {Moved(old, new, x) : x \in movF} |->
                        IF q \in keepF THEN d.files[q]
                        ELSE d.files[CHOOSE x \in movF : Moved(old, new, x) = q]]]

(* fs.rm(..., {recursive: true, force: true}) *)
Rm(d, p) ==
  [dirs  |-> {q \in d.dirs : ~IsPrefix(p, q) \/ q = <<>>},
   files |-> [q \in {x \in DOMAIN d.files : ~IsPrefix(p, x)} |-> d.files[q]]]

----------------------------------------------------------------------------
(* The stores a handler reads and writes, as one record. *)

World ==
  [metadata |-> metadata, versions |-> versions, folders |-> folders,
   agent_tokens |-> agent_tokens, audit_logs |-> audit_logs,
   idempotency_keys |-> idempotency_keys, shares |-> shares, disk |-> disk,
   uuids |-> uuids, now |-> now]

(* A request: the route (op), the credential, the headers and the body.    *)
(* Fields a route does not read keep these defaults.                       *)
Req0 ==
  [op |-> "none",
   cred |-> [kind |-> "jwt", valid |-> TRUE, username |-> "alice", secret |-> <<>>],
   key |-> NoKey,            \* Idempotency-Key header
   id |-> NULL,              \* :id
   has_content |-> FALSE,    \* body.content_md !== undefined
   content_md |-> NoText,
   patch |-> EmptyMap,       \* the metadata fields of the body that are set
   change_note |-> "",       \* body.change_note
   folder_id |-> UNDEF,      \* body.folder_id
   target_version |-> 0,     \* body.target_version (0: missing)
   has_file |-> FALSE,       \* multipart field "file"
   text |-> NoText,
   originalname |-> "",
   ids |-> <<>>,             \* body.ids
   name |-> UNDEF,           \* body.name
   parent_id |-> UNDEF,      \* body.parent_id
   scopes |-> {},            \* body.scopes
   expires_at |-> 0,         \* body.expires_at (0: none)
   q |-> "",                 \* ?q= ("": absent)
   tag |-> "", project |-> "", sort_by |-> "updated_at", sort_order |-> "desc",
   page |-> 1, page_size |-> 20, max_tokens |-> 0,
   draw |-> <<>>,            \* what uuidv4() or randomBytes() returns for a secret
   token |-> "",             \* :token of a share link
   code |-> UNDEF,           \* ?code= or body.access_code
   actor_type |-> "",        \* ?actor_type= ("": absent)
   action |-> "",            \* ?action= ("": absent)
   fault |-> "none"]         \* the write that fails while the request is served

Request(fields) == fields @@ Req0

UserCred(u) == [kind |-> "jwt", valid |-> TRUE, username |-> u, secret |-> <<>>]

BadJwt == [kind |-> "jwt", valid |-> FALSE, username |-> "", secret |-> <<>>]

AgentCred(secret) == [kind |-> "agent", valid |-> FALSE, username |-> "", secret |-> secret]

(* The locals of a handler: its position, what the middleware set on req,  *)
(* the tables it has read (its own copies) and the response once sent.     *)
NewLocal(req) ==
  [req |-> req, pc |-> "auth", ret |-> "done",
   actorType |-> NULL, actorId |-> NULL, agentScopes |-> {}, tokenId |-> NULL,
   idempotencyKey |-> NoKey,
   metadata |-> EmptyMap, versions |-> EmptyMap, folders |-> EmptyMap,
   tokens |-> EmptyMap, logs |-> <<>>, keys |-> EmptyMap, shares |-> EmptyMap,
   entry |-> EmptyMap,       \* the audit entry being appended
   id |-> NULL, raw |-> NoText, file_path |-> <<>>,
   new_path |-> <<>>, folder_id |-> NULL, checksum |-> <<>>,
   at |-> 0,                 \* const now = new Date().toISOString()
   todo |-> <<>>, done_ids |-> <<>>, dels |-> <<>>, changed |-> FALSE,
   base |-> "", n |-> 0, parent_dir |-> <<>>, old_dir |-> <<>>, new_dir |-> <<>>,
   status |-> 0, body |-> EmptyMap]

Idle == [pc |-> "idle"]

At(l, pc) == [l EXCEPT !.pc = pc]

Respond(l, status, body) == [l EXCEPT !.pc = "done", !.status = status, !.body = body]

(* An error response that is stored under the request's Idempotency-Key. *)
SendErrorSaved(l, status, code) ==
  [l EXCEPT !.pc = "save_read", !.ret = "done", !.status = status,
            !.body = [error |-> code]]

(* sendError: every error response carries its code. *)
SendError(l, status, code) == Respond(l, status, [error |-> code])

Res(w, l) == [w |-> w, l |-> l]

(* The middleware in front of each route. *)
RouteAuth(op) ==
  CASE op \in {"update", "get", "list", "versions", "chunks", "search", "download"} -> "agent"
    [] op \in {"resolve_share"} -> "none"
    [] OTHER -> "jwt"

RouteScope(op) ==
  CASE op = "update" -> "documents:write"
    [] op \in {"get", "list", "chunks", "download"} -> "documents:read"
    [] op = "versions" -> "versions:read"
    [] op = "search" -> "search:read"
    [] OTHER -> NULL

RouteIdempotent(op) == op \in {"upload", "update", "rollback"}

(* The first step of the handler proper. *)
Entry(op) == op \o ":0"

(* authMiddleware: a bearer token that jwt.verify accepts. *)
AuthJwt(l) ==
  IF l.req.cred.kind = "jwt" /\ l.req.cred.valid
  THEN [At(l, "scope") EXCEPT !.actorType = "user", !.actorId = l.req.cred.username]
  ELSE SendError(l, 401, "unauthorized")

SecretPrefix(secret) == secret[1]

(* Object.values(tokens).find(t => t.token_prefix === prefix): the first   *)
(* token, in order of creation, with the prefix.                           *)
FindToken(tokens, secret) ==
  LET hits == {i \in DOMAIN tokens : tokens[i].token_prefix = SecretPrefix(secret)}
  IN IF hits = {} THEN NULL
     ELSE CHOOSE i \in hits : \A j \in hits : tokens[i].seq <= tokens[j].seq

(* A middleware that never looks at expires_at. *)
AuthAgentNoExpiry(w, l) ==
  LET tid == FindToken(w.agent_tokens, l.req.cred.secret)
  IN IF tid = NULL THEN SendError(l, 401, "unauthorized")
     ELSE IF sha256(l.req.cred.secret) # w.agent_tokens[tid].token_hash
     THEN SendError(l, 401, "unauthorized")
     ELSE [At(l, "auth_touch_read") EXCEPT !.tokenId = tid,
             !.agentScopes = w.agent_tokens[tid].scopes]

(* agentTokenMiddleware, to the point where the token is accepted. *)
AuthAgent(w, l) ==
  LET tid == FindToken(w.agent_tokens, l.req.cred.secret)
  IN IF tid = NULL THEN SendError(l, 401, "unauthorized")
     ELSE IF sha256(l.req.cred.secret) # w.agent_tokens[tid].token_hash
     THEN SendError(l, 401, "unauthorized")
     ELSE IF w.agent_tokens[tid].expires_at # 0
             /\ w.agent_tokens[tid].expires_at < w.now
     THEN SendError(l, 401, "unauthorized")
     ELSE [At(l, "auth_touch_read") EXCEPT !.tokenId = tid,
             !.agentScopes = w.agent_tokens[tid].scopes]

(* A scope check that lets every actor through. *)
RequireScopeNone(l) == At(l, "idem")

(* requireScope(scope) *)
RequireScope(l) ==
  IF l.actorType = "user" \/ RouteScope(l.req.op) = NULL THEN At(l, "idem")
  ELSE IF RouteScope(l.req.op) \notin l.agentScopes THEN SendError(l, 403, "forbidden")
  ELSE At(l, "idem")

(* A check that never finds the key stored. *)
CheckIdempotencyNever(w, l) ==
  IF ~RouteIdempotent(l.req.op) \/ l.req.key = NoKey THEN At(l, Entry(l.req.op))
  ELSE [At(l, Entry(l.req.op)) EXCEPT !.idempotencyKey = l.req.key]

(* checkIdempotency *)
CheckIdempotency(w, l) ==
  IF ~RouteIdempotent(l.req.op) \/ l.req.key = NoKey THEN At(l, Entry(l.req.op))
  ELSE IF Has(w.idempotency_keys, l.req.key)
  THEN Respond(l, 200, w.idempotency_keys[l.req.key].response)
  ELSE [At(l, Entry(l.req.op)) EXCEPT !.idempotencyKey = l.req.key]

(* The steps every route shares: the middleware, appendAuditLog (read the  *)
(* log, write it back with the entry) and saveIdempotencyResult (read the  *)
(* keys, write them back with the response); l.ret is where to go on.      *)
(* appendAuditLog catches nothing: when its write fails, the handler that  *)
(* awaits it ends in its catch clause.                                     *)
CommonPcs == {"auth", "auth_touch_read", "auth_touch_write", "scope", "idem",
              "audit_read", "audit_write", "save_read", "save_write"}

CommonStep(w, l) ==
  CASE l.pc = "auth" ->
         IF RouteAuth(l.req.op) = "none" THEN Res(w, At(l, Entry(l.req.op)))
         ELSE IF RouteAuth(l.req.op) = "agent" /\ l.req.cred.kind = "agent"
         THEN Res(w, AuthAgent(w, l))
         ELSE Res(w, AuthJwt(l))
    [] l.pc = "auth_touch_read" ->
         Res(w, [At(l, "auth_touch_write") EXCEPT !.tokens = w.agent_tokens])
    [] l.pc = "auth_touch_write" ->
         Res([w EXCEPT !.agent_tokens =
                [l.tokens EXCEPT ![l.tokenId].last_used_at = w.now]],
             [At(l, "scope") EXCEPT !.actorType = "agent", !.actorId = l.tokenId])
    [] l.pc = "scope" -> Res(w, RequireScope(l))
    [] l.pc = "idem" -> Res(w, CheckIdempotency(w, l))
    [] l.pc = "audit_read" ->
         Res(w, [At(l, "audit_write") EXCEPT !.logs = w.audit_logs])
    [] l.pc = "audit_write" ->
         \* a writeJson that rejects is caught by the handler's catch (err)
         IF l.req.fault = "audit_write" THEN Res(w, SendError(l, 500, "internal_error"))
         ELSE Res([w EXCEPT !.audit_logs =
                     Append(l.logs, [l.entry EXCEPT !.created_at = w.now])],
                  At(l, l.ret))
    [] l.pc = "save_read" ->
         IF l.idempotencyKey = NoKey THEN Res(w, At(l, l.ret))
         ELSE Res(w, [At(l, "save_write") EXCEPT !.keys = w.idempotency_keys])
    [] l.pc = "save_write" ->
         Res([w EXCEPT !.idempotency_keys =
                Put(l.keys, l.idempotencyKey, [response |-> l.body, created_at |-> w.now])],
             At(l, l.ret))

(* appendAuditLog(actorType, actorId, action, resourceType, resourceId, metadata) *)
AuditEntry(actorType, actorId, action, resourceType, resourceId, meta, at) ==
  [actor_type |-> actorType, actor_id |-> actorId, action |-> action,
   resource_type |-> resourceType, resource_id |-> resourceId,
   metadata |-> meta, created_at |-> at]

Audit(l, entry, ret) == [l EXCEPT !.pc = "audit_read", !.entry = entry, !.ret = ret]

----------------------------------------------------------------------------
(* Documents. *)

MetaFields == {"title", "description", "category", "tags", "project", "visibility"}

(* a || b || c: the first value that is set. *)
FirstSet(maps, f, default) ==
  LET hits == {i \in 1..Len(maps) : Has(maps[i], f)}
  IN IF hits = {} THEN default
     ELSE maps[CHOOSE i \in hits : \A j \in hits : i <= j][f]

(* The metadata fields of an upload, from the form and the front matter. *)
UploadFields(req) ==
  LET fm == req.text.fm
      form == req.patch
  IN [title |-> FirstSet(<<fm>>, "title", req.originalname),
      description |-> FirstSet(<<fm, form>>, "description", ""),
      category |-> FirstSet(<<form, fm>>, "category", "uncategorized"),
      tags |-> FirstSet(<<form, fm>>, "tags", {}),
      project |-> FirstSet(<<form, fm>>, "project", ""),
      visibility |-> FirstSet(<<form>>, "visibility", "team")]

(* title ?? meta.title, and so on for each field of the body. *)
PatchFields(old, patch) ==
  [f \in MetaFields |-> IF Has(patch, f) THEN patch[f] ELSE old[f]]

(* A test that takes a soft-deleted document for a live one. *)
LiveAlways(meta, id) == Has(meta, id)

(* !meta || meta.deleted_at, negated *)
Live(meta, id) == Has(meta, id) /\ meta[id].deleted_at = 0

buildDocSummary(id, meta) ==
  [id |-> id, fields |-> meta.fields, latest_version |-> meta.latest_version,
   checksum |-> meta.checksum, token_count_estimate |-> meta.token_count_estimate,
   folder_id |-> meta.folder_id, created_by |-> meta.created_by,
   created_at |-> meta.created_at, updated_at |-> meta.updated_at]

WithContent(summary, content) ==
  [summary |-> summary, content_md |-> content]

VersionRow(id, n, content, note, by, at, checksum) ==
  [document_id |-> id, version_number |-> n, content_md |-> content,
   change_note |-> note, created_by |-> by, created_at |-> at, checksum |-> checksum]

(* A version number that repeats the latest one. *)
newVersionNumberStale(meta) == meta.latest_version

(* const newVersionNumber = meta.latest_version + 1 *)
newVersionNumber(meta) == meta.latest_version + 1

(* A push that overwrites the newest row of the chain. *)
PushOverLast(chain, row) ==
  IF chain = <<>> THEN <<row>> ELSE [chain EXCEPT ![Len(chain)] = row]

(* versions[id].push(row) *)
PushVersion(chain, row) == Append(chain, row)

(* folders[id]?.dir_name || id, as a path *)
DirNameOf(fs, fid) == IF Has(fs, fid) THEN fs[fid].dir_name ELSE <<fid>>

(* POST /api/v1/documents/upload *)
UploadStep(w, l) ==
  LET id == l.id
      req == l.req
  IN
  CASE l.pc = "upload:0" ->
         \* upload.single('file'): multer stores the file as `${base}_${uuid}.md`
         IF ~req.has_file THEN Res(w, SendError(l, 400, "validation_error"))
         ELSE LET nid == DocId(w.uuids.doc + 1)
              IN Res([w EXCEPT !.uuids.doc = @ + 1,
                               !.disk = WriteFile(w.disk, <<nid>>, req.text)],
                     [At(l, "upload:read_file") EXCEPT !.id = nid, !.file_path = <<nid>>])
    [] l.pc = "upload:read_file" ->
         IF ~Has(w.disk.files, l.file_path) THEN Res(w, SendError(l, 500, "internal_error"))
         ELSE Res(w, [At(l, "upload:read_meta") EXCEPT
                        !.raw = w.disk.files[l.file_path],
                        !.checksum = sha256(w.disk.files[l.file_path])])
    [] l.pc = "upload:read_meta" ->
         Res(w, [At(l, IF req.folder_id \in {UNDEF, NULL} THEN "upload:write_meta"
                       ELSE "upload:read_folders") EXCEPT
                   !.metadata = w.metadata, !.folder_id = NULL, !.at = w.now])
    [] l.pc = "upload:read_folders" ->
         IF ~Has(w.folders, req.folder_id) THEN Res(w, At(l, "upload:write_meta"))
         ELSE Res(w, [At(l, "upload:mkdir") EXCEPT
                        !.folder_id = req.folder_id,
                        !.new_path = DirNameOf(w.folders, req.folder_id) \o <<id>>])
    [] l.pc = "upload:mkdir" ->
         Res([w EXCEPT !.disk = Mkdir(w.disk, Parent(l.new_path))], At(l, "upload:rename"))
    [] l.pc = "upload:rename" ->
         IF ~CanRename(w.disk, l.file_path, l.new_path)
         THEN Res(w, SendError(l, 500, "internal_error"))
         ELSE Res([w EXCEPT !.disk = Rename(w.disk, l.file_path, l.new_path)],
                  [At(l, "upload:write_meta") EXCEPT !.file_path = l.new_path])
    [] l.pc = "upload:write_meta" ->
         LET rec == [fields |-> UploadFields(req), folder_id |-> l.folder_id,
                     file_path |-> l.file_path, latest_version |-> 1,
                     checksum |-> l.checksum,
                     token_count_estimate |-> tokenEstimate(TextLen(matter(l.raw).content)),
                     created_by |-> l.actorId, created_at |-> l.at,
                     updated_at |-> l.at, deleted_at |-> 0]
             m == Put(l.metadata, id, rec)
         IN Res([w EXCEPT !.metadata = m],
                [At(l, "upload:read_versions") EXCEPT !.metadata = m])
    [] l.pc = "upload:read_versions" ->
         Res(w, [At(l, "upload:write_versions") EXCEPT !.versions = w.versions])
    [] l.pc = "upload:write_versions" ->
         LET row == VersionRow(id, 1, l.raw, "Initial upload", l.actorId, l.at, l.checksum)
         IN Res([w EXCEPT !.versions = Put(l.versions, id, <<row>>)],
                Audit(l, AuditEntry("user", l.actorId, "document.create", "document", id,
                                    [title |-> l.metadata[id].fields.title], w.now),
                      "upload:save"))
    [] l.pc = "upload:save" ->
         Res(w, [l EXCEPT !.pc = "save_read", !.ret = "upload:respond",
                   !.body = [documents |->
                     <<WithContent(buildDocSummary(id, l.metadata[id]),
                                   matter(l.raw).content)>>]])
    [] l.pc = "upload:respond" -> Res(w, Respond(l, 201, l.body))

(* PUT /api/v1/documents/:id *)
UpdateStep(w, l) ==
  LET id == l.req.id
      req == l.req
      meta == l.metadata[id]
      folderChanged == req.folder_id # UNDEF /\ req.folder_id # meta.folder_id
  IN
  CASE l.pc = "update:0" ->
         IF ~Live(w.metadata, id) THEN Res(w, SendError(l, 404, "not_found"))
         ELSE Res(w, [At(l, IF req.folder_id \in {UNDEF, NULL} THEN "update:read_folders"
                            ELSE "update:check_folder") EXCEPT !.metadata = w.metadata])
    [] l.pc = "update:check_folder" ->
         IF ~Has(w.folders, req.folder_id) THEN Res(w, SendError(l, 400, "validation_error"))
         ELSE Res(w, At(l, "update:read_folders"))
    [] l.pc = "update:read_folders" ->
         LET newFolderId == IF req.folder_id # UNDEF THEN req.folder_id ELSE meta.folder_id
             filename == Basename(meta.file_path)
             newFilePath == IF newFolderId = NULL THEN <<filename>>
                            ELSE DirNameOf(w.folders, newFolderId) \o <<filename>>
         IN Res(w, [At(l, IF req.has_content THEN "update:write_file"
                          ELSE IF folderChanged THEN "update:mkdir"
                          ELSE "update:read_versions") EXCEPT
                      !.at = w.now, !.file_path = meta.file_path, !.new_path = newFilePath,
                      !.checksum = IF req.has_content THEN sha256(req.content_md)
                                   ELSE meta.checksum])
    [] l.pc = "update:write_file" ->
         IF ~CanWriteFile(w.disk, l.file_path) THEN Res(w, SendError(l, 500, "internal_error"))
         ELSE Res([w EXCEPT !.disk = WriteFile(w.disk, l.file_path, req.content_md)],
                  At(l, IF folderChanged THEN "update:mkdir" ELSE "update:read_versions"))
    [] l.pc = "update:mkdir" ->
         Res([w EXCEPT !.disk = Mkdir(w.disk, Parent(l.new_path))], At(l, "update:rename"))
    [] l.pc = "update:rename" ->
         IF ~CanRename(w.disk, l.file_path, l.new_path)
         THEN Res(w, SendError(l, 500, "internal_error"))
         ELSE Res([w EXCEPT !.disk = Rename(w.disk, l.file_path, l.new_path)],
                  At(l, "update:read_versions"))
    [] l.pc = "update:read_versions" ->
         Res(w, [At(l, IF req.has_content THEN "update:prev_content"
                       ELSE "update:write_versions") EXCEPT
                   !.versions = IF Has(w.versions, id) THEN w.versions
                                ELSE Put(w.versions, id, <<>>)])
    [] l.pc = "update:prev_content" ->
         \* getDocContent(id, meta).catch(() => ''): read, and not used
         Res(w, At(l, "update:write_versions"))
    [] l.pc = "update:write_versions" ->
         LET row == VersionRow(id, newVersionNumber(meta), req.content_md,
                               req.change_note, l.actorId, l.at, l.checksum)
             v == IF req.has_content
                  THEN [l.versions EXCEPT ![id] = PushVersion(@, row)]
                  ELSE l.versions
         IN Res([w EXCEPT !.versions = v],
                [At(l, "update:write_meta") EXCEPT !.versions = v])
    [] l.pc = "update:write_meta" ->
         LET rec == [meta EXCEPT
                       !.fields = PatchFields(meta.fields, req.patch),
                       !.folder_id = IF req.folder_id # UNDEF THEN req.folder_id
                                     ELSE meta.folder_id,
                       !.file_path = l.new_path,
                       !.latest_version = IF req.has_content THEN newVersionNumber(meta)
                                          ELSE meta.latest_version,
                       !.checksum = l.checksum,
                       !.token_count_estimate =
                          IF req.has_content THEN tokenEstimate(TextLen(req.content_md))
                          ELSE meta.token_count_estimate,
                       !.updated_at = l.at]
             m == [l.metadata EXCEPT ![id] = rec]
         IN Res([w EXCEPT !.metadata = m],
                Audit([l EXCEPT !.metadata = m],
                      AuditEntry(l.actorType, l.actorId, "document.update", "document", id,
                                 [title |-> rec.fields.title], w.now),
                      "update:content"))
    [] l.pc = "update:content" ->
         \* the content of the response: the body sent, or the file read back
         LET content == IF req.has_content THEN req.content_md
                        ELSE IF Has(w.disk.files, meta.file_path)
                        THEN matter(w.disk.files[meta.file_path]).content
                        ELSE NoText
         IN Res(w, [l EXCEPT !.pc = "save_read", !.ret = "update:respond",
                      !.body = WithContent(buildDocSummary(id, meta), content)])
    [] l.pc = "update:respond" -> Res(w, Respond(l, 200, l.body))

(* DELETE /api/v1/documents/:id *)
DeleteStep(w, l) ==
  LET id == l.req.id
  IN
  CASE l.pc = "delete:0" ->
         IF ~Live(w.metadata, id) THEN Res(w, SendError(l, 404, "not_found"))
         ELSE Res(w, [At(l, "delete:write") EXCEPT
                        !.metadata = [w.metadata EXCEPT ![id].deleted_at = w.now]])
    [] l.pc = "delete:write" ->
         Res([w EXCEPT !.metadata = l.metadata],
             Audit(l, AuditEntry("user", l.actorId, "document.delete", "document", id,
                                 EmptyMap, w.now),
                   "delete:respond"))
    [] l.pc = "delete:respond" -> Res(w, Respond(l, 204, EmptyMap))

(* A rollback that keeps the checksum the document had. *)
RollbackMetaKeepChecksum(meta, n, checksum, at) ==
  [meta EXCEPT !.latest_version = n, !.updated_at = at]

(* metadata[id] = { ...meta, latest_version, checksum, updated_at } *)
RollbackMeta(meta, n, checksum, at) ==
  [meta EXCEPT !.latest_version = n, !.checksum = checksum, !.updated_at = at]

(* A lookup that takes the newest row whatever number was asked for. *)
FindVersionNewest(chain, n) == Len(chain)

FindVersion(chain, n) ==
  LET hits == {i \in 1..Len(chain) : chain[i].version_number = n}
  IN IF hits = {} THEN 0 ELSE CHOOSE i \in hits : \A j \in hits : i <= j

(* POST /api/v1/documents/:id/rollback *)
RollbackStep(w, l) ==
  LET id == l.req.id
      req == l.req
      meta == l.metadata[id]
  IN
  CASE l.pc = "rollback:0" ->
         IF req.target_version = 0 THEN Res(w, SendError(l, 400, "validation_error"))
         ELSE IF ~Live(w.metadata, id) THEN Res(w, SendError(l, 404, "not_found"))
         ELSE Res(w, [At(l, "rollback:read_versions") EXCEPT !.metadata = w.metadata])
    [] l.pc = "rollback:read_versions" ->
         LET chain == IF Has(w.versions, id) THEN w.versions[id] ELSE <<>>
             i == FindVersion(chain, req.target_version)
         IN IF i = 0 THEN Res(w, SendError(l, 400, "validation_error"))
            ELSE Res(w, [At(l, "rollback:write_file") EXCEPT
                           !.versions = w.versions, !.raw = chain[i].content_md,
                           !.at = w.now, !.checksum = sha256(chain[i].content_md)])
    [] l.pc = "rollback:write_file" ->
         IF ~CanWriteFile(w.disk, meta.file_path) THEN Res(w, SendError(l, 500, "internal_error"))
         ELSE Res([w EXCEPT !.disk = WriteFile(w.disk, meta.file_path, l.raw)],
                  At(l, "rollback:write_versions"))
    [] l.pc = "rollback:write_versions" ->
         LET row == VersionRow(id, newVersionNumber(meta), l.raw,
                               IF req.change_note # "" THEN req.change_note
                               ELSE "Rollback to version " \o ToString(req.target_version),
                               l.actorId, l.at, l.checksum)
             v == [l.versions EXCEPT ![id] = PushVersion(@, row)]
         IN Res([w EXCEPT !.versions = v], [At(l, "rollback:write_meta") EXCEPT !.versions = v])
    [] l.pc = "rollback:write_meta" ->
         LET rec == RollbackMeta(meta, newVersionNumber(meta), l.checksum, l.at)
             m == [l.metadata EXCEPT ![id] = rec]
         IN Res([w EXCEPT !.metadata = m],
                Audit([l EXCEPT !.metadata = m],
                      AuditEntry("user", l.actorId, "document.rollback", "document", id,
                                 [target_version |-> req.target_version,
                                  new_version |-> rec.latest_version], w.now),
                      "rollback:save"))
    [] l.pc = "rollback:save" ->
         Res(w, [l EXCEPT !.pc = "save_read", !.ret = "rollback:respond",
                   !.body = WithContent(buildDocSummary(id, meta), l.raw)])
    [] l.pc = "rollback:respond" -> Res(w, Respond(l, 200, l.body))

----------------------------------------------------------------------------
(* Reading documents. *)

(* The position of a key in a table: Object.entries lists the keys in the  *)
(* order they were added, which is the order the ids were drawn in.        *)
RECURSIVE KeysInOrder(_, _, _)
KeysInOrder(m, prefix, n) ==
  IF n = 0 THEN <<>>
  ELSE KeysInOrder(m, prefix, n - 1) \o
       (IF Has(m, prefix \o ToString(n)) THEN <<prefix \o ToString(n)>> ELSE <<>>)

DocKeys(m) == KeysInOrder(m, "d", MaxDocs)

RECURSIVE Filter(_, _)
Filter(seq, keep) ==
  IF seq = <<>> THEN <<>>
  ELSE (IF Head(seq) \in keep THEN <<Head(seq)>> ELSE <<>>) \o Filter(Tail(seq), keep)

(* s.toLowerCase().includes(q), on the strings of the model, none of which *)
(* is part of another.                                                     *)
Includes(s, q) == s = q

ContentIncludes(t, q) ==
  \/ \E i \in 1..Len(t.lines) : Includes(t.lines[i].text, q)
  \/ \E k \in DOMAIN t.fm : Includes(t.fm[k], q)

(* The order of the titles of the model under localeCompare. *)
StringRank(x) == IF x = "" THEN 0 ELSE CHOOSE n \in 1..26 :
                   SubSeq("ABCDEFGHIJKLMNOPQRSTUVWXYZ", n, n) = SubSeq(x, 1, 1)

SortKey(doc, field) ==
  CASE field = "created_at" -> doc.created_at
    [] field = "title" -> StringRank(doc.fields.title)
    [] OTHER -> doc.updated_at

(* The comparator of docs.sort: negative when a goes before b. *)
ListCompare(a, b, req) ==
  LET field == IF req.sort_by \in {"updated_at", "created_at", "title"}
               THEN req.sort_by ELSE "updated_at"
      av == SortKey(a, field)
      bv == SortKey(b, field)
  IN IF req.sort_order = "asc" THEN av - bv ELSE bv - av

(* Array.prototype.sort is stable: equal elements keep their order. *)
RECURSIVE InsertDoc(_, _, _)
InsertDoc(sorted, x, req) ==
  IF sorted = <<>> THEN <<x>>
  ELSE LET lst == sorted[Len(sorted)]
       IN IF ListCompare(lst, x, req) <= 0 THEN Append(sorted, x)
          ELSE Append(InsertDoc(SubSeq(sorted, 1, Len(sorted) - 1), x, req), lst)

RECURSIVE SortDocs(_, _)
SortDocs(docs, req) ==
  IF docs = <<>> THEN <<>>
  ELSE InsertDoc(SortDocs(SubSeq(docs, 1, Len(docs) - 1), req), docs[Len(docs)], req)

Slice(seq, from, to) ==
  SubSeq(seq, from + 1, IF to < Len(seq) THEN to ELSE Len(seq))

ListMatches(meta, req) ==
  /\ meta.deleted_at = 0
  /\ req.tag # "" => req.tag \in meta.fields.tags
  /\ req.project # "" => meta.fields.project = req.project
  /\ req.folder_id # UNDEF =>
       IF req.folder_id \in {"root", ""} THEN meta.folder_id = NULL
       ELSE meta.folder_id = req.folder_id
  /\ req.q # "" =>
       \/ Includes(meta.fields.title, req.q)
       \/ Includes(meta.fields.description, req.q)
       \/ \E t \in meta.fields.tags : Includes(t, req.q)

(* GET /api/v1/documents *)
ListDocuments(m, req) ==
  LET ids == Filter(DocKeys(m), {d \in DOMAIN m : ListMatches(m[d], req)})
      docs == SortDocs([i \in 1..Len(ids) |-> buildDocSummary(ids[i], m[ids[i]])], req)
  IN [data |-> Slice(docs, (req.page - 1) * req.page_size, req.page * req.page_size),
      pagination |-> [page |-> req.page, page_size |-> req.page_size, total |-> Len(docs)]]

VersionSummary(v) ==
  [document_id |-> v.document_id, version_number |-> v.version_number,
   change_note |-> v.change_note, created_by |-> v.created_by,
   created_at |-> v.created_at, checksum |-> v.checksum]

(* GET /api/v1/documents, /:id, /:id/versions, /:id/download, /search *)
ReadStep(w, l) ==
  LET id == l.req.id
      req == l.req
  IN
  CASE l.pc = "list:0" -> Res(w, Respond(l, 200, ListDocuments(w.metadata, req)))
    [] l.pc = "get:0" ->
         IF ~Live(w.metadata, id) THEN Res(w, SendError(l, 404, "not_found"))
         ELSE Res(w, [At(l, "get:read_file") EXCEPT !.metadata = w.metadata])
    [] l.pc = "get:read_file" ->
         LET meta == l.metadata[id]
         IN IF ~Has(w.disk.files, meta.file_path) THEN Res(w, SendError(l, 404, "not_found"))
            ELSE Res(w, Respond(l, 200, WithContent(buildDocSummary(id, meta),
                                                    w.disk.files[meta.file_path])))
    [] l.pc = "versions:0" ->
         IF ~Has(w.metadata, id) THEN Res(w, SendError(l, 404, "not_found"))
         ELSE Res(w, At(l, "versions:read"))
    [] l.pc = "versions:read" ->
         LET chain == IF Has(w.versions, id) THEN w.versions[id] ELSE <<>>
         IN Res(w, Respond(l, 200, [document_id |-> id,
                                    versions |-> [i \in 1..Len(chain) |->
                                                    VersionSummary(chain[i])]]))
    [] l.pc = "download:0" ->
         IF ~Live(w.metadata, id) THEN Res(w, SendError(l, 404, "not_found"))
         ELSE Res(w, [At(l, "download:read_file") EXCEPT !.metadata = w.metadata])
    [] l.pc = "download:read_file" ->
         LET meta == l.metadata[id]
         IN IF ~Has(w.disk.files, meta.file_path)
            THEN Res(w, SendError(l, 500, "internal_error"))
            ELSE Res(w, Respond(l, 200, [content |-> w.disk.files[meta.file_path]]))
    [] l.pc = "search:0" ->
         IF req.q = "" THEN Res(w, SendError(l, 400, "validation_error"))
         ELSE Res(w, [At(l, "search:scan") EXCEPT
                        !.metadata = w.metadata, !.todo = DocKeys(w.metadata),
                        !.done_ids = <<>>])
    [] l.pc = "search:scan" ->
         \* one document of the loop: its title, its tags, or else its file
         IF l.todo = <<>>
         THEN Res(w, Respond(l, 200,
                [data |-> Slice([i \in 1..Len(l.done_ids) |->
                                   buildDocSummary(l.done_ids[i], l.metadata[l.done_ids[i]])],
                                (req.page - 1) * req.page_size, req.page * req.page_size),
                 pagination |-> [page |-> req.page, page_size |-> req.page_size,
                                 total |-> Len(l.done_ids)]]))
         ELSE LET d == Head(l.todo)
                  meta == l.metadata[d]
                  matched ==
                    /\ meta.deleted_at = 0
                    /\ \/ Includes(meta.fields.title, req.q)
                       \/ \E t \in meta.fields.tags : Includes(t, req.q)
                       \/ /\ Has(w.disk.files, meta.file_path)
                          /\ ContentIncludes(w.disk.files[meta.file_path], req.q)
              IN Res(w, [l EXCEPT !.todo = Tail(l.todo),
                           !.done_ids = IF matched THEN Append(@, d) ELSE @])

----------------------------------------------------------------------------
(* Share links. *)

ShareId(i) == "s" \o ToString(i)

ShareToken(sid) == "token-" \o sid

(* A lookup that takes any share, whatever its token. *)
FindShareAny(sh, token) ==
  IF DOMAIN sh = {} THEN NULL ELSE CHOOSE i \in DOMAIN sh : TRUE

(* Object.values(shares).find(s => s.token === token) *)
FindShare(sh, token) ==
  LET hits == {i \in DOMAIN sh : sh[i].token = token}
  IN IF hits = {} THEN NULL ELSE CHOOSE i \in hits : TRUE

(* POST /api/v1/documents/:id/share, DELETE /api/v1/shares/:shareId,       *)
(* GET /api/share/:token                                                   *)
ShareStep(w, l) ==
  LET id == l.req.id
      req == l.req
  IN
  CASE l.pc = "share:0" ->
         IF ~Live(w.metadata, id) THEN Res(w, SendError(l, 404, "not_found"))
         ELSE Res(w, At(l, "share:read"))
    [] l.pc = "share:read" ->
         \* crypto.randomBytes(24): a token no other share has
         LET sid == ShareId(w.uuids.share + 1)
             rec == [id |-> sid, document_id |-> id, token |-> ShareToken(sid),
                     access_code |-> IF req.code \in {UNDEF, ""} THEN NULL ELSE req.code,
                     created_by |-> l.actorId, created_at |-> w.now]
         IN Res([w EXCEPT !.uuids.share = @ + 1],
                [At(l, "share:write") EXCEPT !.shares = Put(w.shares, sid, rec), !.id = sid])
    [] l.pc = "share:write" ->
         Res([w EXCEPT !.shares = l.shares],
             Audit(l, AuditEntry("user", l.actorId, "share.create", "share", l.id,
                                 [document_id |-> id,
                                  has_code |-> l.shares[l.id].access_code # NULL], w.now),
                   "share:respond"))
    [] l.pc = "share:respond" ->
         Res(w, Respond(l, 201, [id |-> l.id, token |-> l.shares[l.id].token,
                                 has_access_code |-> l.shares[l.id].access_code # NULL]))
    [] l.pc = "unshare:0" ->
         IF ~Has(w.shares, id) THEN Res(w, SendError(l, 404, "not_found"))
         ELSE Res(w, [At(l, "unshare:write") EXCEPT !.shares = Remove(w.shares, id)])
    [] l.pc = "unshare:write" ->
         Res([w EXCEPT !.shares = l.shares],
             Audit(l, AuditEntry("user", l.actorId, "share.delete", "share", id,
                                 EmptyMap, w.now),
                   "unshare:respond"))
    [] l.pc = "unshare:respond" -> Res(w, Respond(l, 204, EmptyMap))
    [] l.pc = "resolve_share:0" ->
         LET sid == FindShare(w.shares, req.token)
         IN IF sid = NULL THEN Res(w, SendError(l, 404, "not_found"))
            ELSE IF w.shares[sid].access_code # NULL /\ w.shares[sid].access_code # req.code
            THEN Res(w, SendError(l, 403, "forbidden"))
            ELSE Res(w, [At(l, "resolve_share:meta") EXCEPT !.id = w.shares[sid].document_id])
    [] l.pc = "resolve_share:meta" ->
         IF ~Live(w.metadata, l.id) THEN Res(w, SendError(l, 404, "not_found"))
         ELSE Res(w, [At(l, "resolve_share:read_file") EXCEPT !.metadata = w.metadata])
    [] l.pc = "resolve_share:read_file" ->
         LET meta == l.metadata[l.id]
         IN IF ~Has(w.disk.files, meta.file_path)
            THEN Res(w, SendError(l, 500, "internal_error"))
            ELSE Res(w, Respond(l, 200, WithContent(buildDocSummary(l.id, meta),
                                                    w.disk.files[meta.file_path])))

----------------------------------------------------------------------------
(* Agent tokens. *)

TokenId(i) == "t" \o ToString(i)

ValidScopes == {"documents:read", "documents:write", "versions:read",
                "search:read", "audit:read"}

(* A token record that keeps the secret itself where its hash belongs. *)
TokenRecordPlain(tid, req, at, seq) ==
  [id |-> tid, name |-> req.name, role |-> "agent", scopes |-> req.scopes,
   token_prefix |-> SecretPrefix(req.draw), token_hash |-> req.draw,
   expires_at |-> req.expires_at, created_at |-> at, last_used_at |-> 0, seq |-> seq]

(* tokens[id] = { id, name, role, scopes, token_prefix, token_hash, ... };  *)
(* seq is the position of the record among the values of the table.        *)
TokenRecord(tid, req, at, seq) ==
  [id |-> tid, name |-> req.name, role |-> "agent", scopes |-> req.scopes,
   token_prefix |-> SecretPrefix(req.draw), token_hash |-> sha256(req.draw),
   expires_at |-> req.expires_at, created_at |-> at, last_used_at |-> 0, seq |-> seq]

(* POST /api/v1/agents/tokens.  req.draw is the secret `agt_${uuid}`, as   *)
(* the pair of its first 8 characters and the rest.                        *)
TokenStep(w, l) ==
  LET req == l.req
  IN
  CASE l.pc = "create_token:0" ->
         IF req.name \in {UNDEF, ""} \/ req.scopes = {}
         THEN Res(w, SendError(l, 400, "validation_error"))
         ELSE IF ~(req.scopes \subseteq ValidScopes)
         THEN Res(w, SendError(l, 400, "validation_error"))
         ELSE LET tid == TokenId(w.uuids.token + 1)
                  rec == TokenRecord(tid, req, w.now, w.uuids.token + 1)
              IN Res([w EXCEPT !.uuids.token = @ + 1],
                     [At(l, "create_token:write") EXCEPT
                        !.tokens = Put(w.agent_tokens, tid, rec), !.id = tid])
    [] l.pc = "create_token:write" ->
         Res([w EXCEPT !.agent_tokens = l.tokens],
             Audit(l, AuditEntry("user", l.actorId, "agent_token.create", "agent_token", l.id,
                                 [name |-> req.name, scopes |-> req.scopes], w.now),
                   "create_token:respond"))
    [] l.pc = "create_token:respond" ->
         Res(w, Respond(l, 201, [id |-> l.id, name |-> req.name, scopes |-> req.scopes,
                                 token_prefix |-> l.tokens[l.id].token_prefix,
                                 expires_at |-> req.expires_at,
                                 secret_token |-> req.draw]))

(* Array.prototype.sort with (a, b) => b.created_at.localeCompare(          *)
(* a.created_at): newest first, entries of one instant in the order they   *)
(* had.                                                                    *)
RECURSIVE InsertLog(_, _)
InsertLog(sorted, x) ==
  IF sorted = <<>> THEN <<x>>
  ELSE LET lst == sorted[Len(sorted)]
       IN IF x.created_at <= lst.created_at THEN Append(sorted, x)
          ELSE Append(InsertLog(SubSeq(sorted, 1, Len(sorted) - 1), x), lst)

RECURSIVE SortLogs(_)
SortLogs(logs) ==
  IF logs = <<>> THEN <<>>
  ELSE InsertLog(SortLogs(SubSeq(logs, 1, Len(logs) - 1)), logs[Len(logs)])

RECURSIVE FilterLogs(_, _)
FilterLogs(logs, req) ==
  IF logs = <<>> THEN <<>>
  ELSE LET e == Head(logs)
           keep == /\ req.actor_type # "" => e.actor_type = req.actor_type
                   /\ req.action # "" => e.action = req.action
       IN (IF keep THEN <<e>> ELSE <<>>) \o FilterLogs(Tail(logs), req)

(* GET /api/v1/audit-logs *)
AuditLogsStep(w, l) ==
  LET req == l.req
      logs == SortLogs(FilterLogs(w.audit_logs, req))
  IN
  CASE l.pc = "audit_logs:0" ->
         Res(w, Respond(l, 200,
                [data |-> Slice(logs, (req.page - 1) * req.page_size,
                                req.page * req.page_size),
                 pagination |-> [page |-> req.page, page_size |-> req.page_size,
                                 total |-> Len(logs)]]))

----------------------------------------------------------------------------
(* Batch operations. *)

RECURSIVE MarkDeleted(_, _, _)
(* for (const id of ids) if (metadata[id] && !metadata[id].deleted_at) ... *)
MarkDeleted(m, ids, at) ==
  IF ids = <<>> THEN [metadata |-> m, deleted |-> <<>>]
  ELSE LET id == Head(ids)
       IN IF Live(m, id)
          THEN LET r == MarkDeleted([m EXCEPT ![id].deleted_at = at], Tail(ids), at)
               IN [r EXCEPT !.deleted = <<id>> \o @]
          ELSE MarkDeleted(m, Tail(ids), at)

(* POST /api/v1/documents/batch/delete, /batch/move *)
BatchStep(w, l) ==
  LET req == l.req
  IN
  CASE l.pc = "batch_delete:0" ->
         IF req.ids = <<>> THEN Res(w, SendError(l, 400, "validation_error"))
         ELSE LET r == MarkDeleted(w.metadata, req.ids, w.now)
              IN Res(w, [At(l, "batch_delete:write") EXCEPT
                           !.metadata = r.metadata, !.done_ids = r.deleted,
                           !.todo = r.deleted])
    [] l.pc = "batch_delete:write" ->
         Res([w EXCEPT !.metadata = l.metadata], At(l, "batch_delete:audit"))
    [] l.pc = "batch_delete:audit" ->
         IF l.todo = <<>> THEN Res(w, Respond(l, 200, [deleted |-> l.done_ids]))
         ELSE Res(w, Audit([l EXCEPT !.todo = Tail(@)],
                           AuditEntry("user", l.actorId, "document.delete", "document",
                                      Head(l.todo), [batch |-> TRUE], w.now),
                           "batch_delete:audit"))
    [] l.pc = "batch_move:0" ->
         IF req.ids = <<>> THEN Res(w, SendError(l, 400, "validation_error"))
         ELSE IF req.folder_id \notin {NULL, UNDEF} /\ ~Has(w.folders, req.folder_id)
         THEN Res(w, SendError(l, 400, "validation_error"))
         ELSE Res(w, At(l, "batch_move:read_meta"))
    [] l.pc = "batch_move:read_meta" ->
         Res(w, [At(l, "batch_move:read_folders") EXCEPT !.metadata = w.metadata])
    [] l.pc = "batch_move:read_folders" ->
         Res(w, [At(l, "batch_move:next") EXCEPT
                   !.folders = w.folders, !.todo = req.ids, !.done_ids = <<>>,
                   !.folder_id = IF req.folder_id # UNDEF THEN req.folder_id ELSE NULL])
    [] l.pc = "batch_move:next" ->
         IF l.todo = <<>> THEN Res(w, At(l, "batch_move:write"))
         ELSE IF ~Live(l.metadata, Head(l.todo)) THEN Res(w, [l EXCEPT !.todo = Tail(@)])
         ELSE LET meta == l.metadata[Head(l.todo)]
                  filename == Basename(meta.file_path)
                  newFilePath == IF l.folder_id = NULL THEN <<filename>>
                                 ELSE DirNameOf(l.folders, l.folder_id) \o <<filename>>
              IN Res(w, [At(l, IF l.folder_id # NULL THEN "batch_move:mkdir"
                               ELSE "batch_move:rename") EXCEPT
                           !.file_path = meta.file_path, !.new_path = newFilePath])
    [] l.pc = "batch_move:mkdir" ->
         Res([w EXCEPT !.disk = Mkdir(w.disk, Parent(l.new_path))], At(l, "batch_move:rename"))
    [] l.pc = "batch_move:rename" ->
         IF l.file_path # l.new_path /\ ~CanRename(w.disk, l.file_path, l.new_path)
         THEN Res(w, SendError(l, 500, "internal_error"))
         ELSE Res([w EXCEPT !.disk = Rename(w.disk, l.file_path, l.new_path)],
                  [At(l, "batch_move:next") EXCEPT
                     !.metadata[Head(l.todo)].folder_id = l.folder_id,
                     !.metadata[Head(l.todo)].file_path = l.new_path,
                     !.metadata[Head(l.todo)].updated_at = w.now,
                     !.done_ids = Append(@, Head(l.todo)),
                     !.todo = Tail(@)])
    [] l.pc = "batch_move:write" ->
         Res([w EXCEPT !.metadata = l.metadata], Respond(l, 200, [moved |-> l.done_ids]))

----------------------------------------------------------------------------
(* Folders. *)

FolderKeys(m) == KeysInOrder(m, "f", MaxFolders)

(* sanitizeFilename, on the names of the model: every character outside    *)
(* [a-zA-Z0-9._-] becomes "_".                                             *)
sanitizeFilename(name) ==
  CASE name = "A B" -> "A_B"
    [] name = "" -> "document"
    [] OTHER -> name

(* The candidate of uniqueDirName's n-th turn: base, base_2, base_3, ... *)
Leaf(base, n) == IF n <= 1 THEN base ELSE base \o "_" \o ToString(n)

(* One turn of uniqueDirName's loop: fs.access(full), and the next leaf if *)
(* the path exists.                                                        *)
UniqueDirTurn(w, l, found) ==
  IF Exists(w.disk, l.new_dir)
  THEN [l EXCEPT !.new_dir = l.parent_dir \o <<Leaf(l.base, l.n)>>, !.n = @ + 1]
  ELSE At(l, found)

(* A walk that never meets the folder. *)
WalkUpNone(fs, cur, id, fuel) == "ok"

(* The walk `while (cur)` of the circular-reference check: "cycle" when it *)
(* meets id, "ok" when it reaches the root, "hang" when it never ends.     *)
RECURSIVE WalkUp(_, _, _, _)
WalkUp(fs, cur, id, fuel) ==
  IF cur = NULL THEN "ok"
  ELSE IF cur = id THEN "cycle"
  ELSE IF fuel = 0 THEN "hang"
  ELSE WalkUp(fs, IF Has(fs, cur) THEN fs[cur].parent_id ELSE NULL, id, fuel - 1)

(* A collection that stops at the children of the folder. *)
getDescendantsChildren(fs, folderId, fuel) ==
  Filter(FolderKeys(fs), {f \in DOMAIN fs : fs[f].parent_id = folderId})

(* A collection that finds no folder below the folder. *)
getDescendantsNone(fs, folderId, fuel) == <<>>

(* getDescendants: the children of a folder, each followed by its own      *)
(* descendants; <<"overflow">> when the recursion does not end.            *)
RECURSIVE getDescendants(_, _, _)
RECURSIVE DescendantsOfEach(_, _, _)
getDescendants(fs, folderId, fuel) ==
  IF fuel = 0 THEN <<"overflow">>
  ELSE DescendantsOfEach(fs, Filter(FolderKeys(fs),
                                    {f \in DOMAIN fs : fs[f].parent_id = folderId}), fuel)

DescendantsOfEach(fs, children, fuel) ==
  IF children = <<>> THEN <<>>
  ELSE <<Head(children)>> \o getDescendants(fs, Head(children), fuel - 1)
       \o DescendantsOfEach(fs, Tail(children), fuel)

(* A membership test that never finds the element. *)
InSeqNever(x, seq) == FALSE

(* seq.includes(x) *)
InSeq(x, seq) == \E i \in 1..Len(seq) : seq[i] = x

(* POST /api/v1/folders *)
FolderCreateStep(w, l) ==
  LET req == l.req
  IN
  CASE l.pc = "folder_create:0" ->
         IF req.name \in {UNDEF, ""} THEN Res(w, SendError(l, 400, "validation_error"))
         ELSE IF req.parent_id \notin {UNDEF, NULL} /\ ~Has(w.folders, req.parent_id)
         THEN Res(w, SendError(l, 400, "validation_error"))
         ELSE LET pdir == IF req.parent_id \in {UNDEF, NULL} THEN <<>>
                          ELSE w.folders[req.parent_id].dir_name
              IN Res([w EXCEPT !.uuids.folder = @ + 1],
                     [At(l, "folder_create:unique") EXCEPT
                        !.folders = w.folders, !.id = FolderId(w.uuids.folder + 1),
                        !.at = w.now, !.base = sanitizeFilename(req.name), !.n = 2,
                        !.parent_dir = pdir,
                        !.new_dir = pdir \o <<sanitizeFilename(req.name)>>])
    [] l.pc = "folder_create:unique" -> Res(w, UniqueDirTurn(w, l, "folder_create:write"))
    [] l.pc = "folder_create:write" ->
         LET rec == [id |-> l.id, name |-> req.name, dir_name |-> l.new_dir,
                     parent_id |-> IF req.parent_id = UNDEF THEN NULL ELSE req.parent_id,
                     created_by |-> l.actorId, created_at |-> l.at, updated_at |-> l.at]
             fs == Put(l.folders, l.id, rec)
         IN Res([w EXCEPT !.folders = fs], [At(l, "folder_create:mkdir") EXCEPT !.folders = fs])
    [] l.pc = "folder_create:mkdir" ->
         Res([w EXCEPT !.disk = Mkdir(w.disk, l.new_dir)],
             Audit(l, AuditEntry("user", l.actorId, "folder.create", "folder", l.id,
                                 [name |-> req.name], w.now),
                   "folder_create:respond"))
    [] l.pc = "folder_create:respond" -> Res(w, Respond(l, 201, l.folders[l.id]))

(* The cascade of a rename over the folder table: every other folder whose *)
(* dir_name starts with `${oldDirName}/`.                                  *)
CascadeFolders(fs, id, old, new) ==
  [f \in DOMAIN fs |->
     IF f # id /\ IsPrefix(old, fs[f].dir_name) /\ fs[f].dir_name # old
     THEN [fs[f] EXCEPT !.dir_name = Moved(old, new, fs[f].dir_name)]
     ELSE fs[f]]

DocUnderDir(meta, old) ==
  meta.deleted_at = 0 /\ IsPrefix(old, meta.file_path) /\ meta.file_path # old

(* The cascade of a rename over the documents: the file_path of every live *)
(* document that starts with `${oldDirName}/`.                             *)
CascadeDocs(m, old, new) ==
  [d \in DOMAIN m |->
     IF DocUnderDir(m[d], old)
     THEN [m[d] EXCEPT !.file_path = Moved(old, new, m[d].file_path)]
     ELSE m[d]]

(* PUT /api/v1/folders/:id *)
FolderUpdateStep(w, l) ==
  LET req == l.req
      id == l.req.id
      renamed == req.name # UNDEF /\ l.new_dir # l.old_dir
  IN
  CASE l.pc = "folder_update:0" ->
         IF ~Has(w.folders, id) THEN Res(w, SendError(l, 404, "not_found"))
         ELSE IF req.parent_id \notin {UNDEF, NULL} /\ ~Has(w.folders, req.parent_id)
         THEN Res(w, SendError(l, 400, "validation_error"))
         ELSE LET walk == IF req.parent_id \in {UNDEF, NULL} THEN "ok"
                          ELSE WalkUp(w.folders, req.parent_id, id,
                                      Cardinality(DOMAIN w.folders))
                  f == w.folders[id]
                  pdir == IF f.parent_id = NULL THEN <<>>
                          ELSE IF Has(w.folders, f.parent_id)
                          THEN w.folders[f.parent_id].dir_name ELSE <<>>
                  rename == req.name # UNDEF /\ req.name # f.name
              IN IF walk = "cycle" THEN Res(w, SendError(l, 400, "validation_error"))
                 ELSE IF walk = "hang" THEN Res(w, At(l, "hang"))
                 ELSE Res(w, [At(l, IF rename THEN "folder_update:unique"
                                    ELSE "folder_update:write") EXCEPT
                                !.folders = w.folders, !.old_dir = f.dir_name,
                                !.parent_dir = pdir, !.n = 2,
                                !.base = IF rename THEN sanitizeFilename(req.name) ELSE "",
                                !.new_dir = IF rename THEN pdir \o <<sanitizeFilename(req.name)>>
                                            ELSE f.dir_name])
    [] l.pc = "folder_update:unique" -> Res(w, UniqueDirTurn(w, l, "folder_update:write"))
    [] l.pc = "folder_update:write" ->
         LET f == l.folders[id]
             g == [f EXCEPT !.name = IF req.name # UNDEF THEN req.name ELSE @,
                            !.dir_name = IF req.name # UNDEF THEN l.new_dir ELSE @,
                            !.parent_id = IF req.parent_id # UNDEF THEN req.parent_id ELSE @,
                            !.updated_at = w.now]
             fs1 == [l.folders EXCEPT ![id] = g]
             fs == IF renamed THEN CascadeFolders(fs1, id, l.old_dir, l.new_dir) ELSE fs1
         IN Res([w EXCEPT !.folders = fs],
                IF renamed THEN [At(l, "folder_update:rename_dir") EXCEPT !.folders = fs]
                ELSE Audit([l EXCEPT !.folders = fs],
                           AuditEntry("user", l.actorId, "folder.update", "folder", id,
                                      [name |-> req.name, parent_id |-> req.parent_id], w.now),
                           "folder_update:respond"))
    [] l.pc = "folder_update:rename_dir" ->
         \* try { await fs.rename(old, new) } catch {}
         Res(IF CanRename(w.disk, l.old_dir, l.new_dir)
             THEN [w EXCEPT !.disk = Rename(w.disk, l.old_dir, l.new_dir)] ELSE w,
             At(l, "folder_update:read_meta"))
    [] l.pc = "folder_update:read_meta" ->
         LET changed == \E d \in DOMAIN w.metadata : DocUnderDir(w.metadata[d], l.old_dir)
         IN IF changed
            THEN Res(w, [At(l, "folder_update:write_meta") EXCEPT
                           !.metadata = CascadeDocs(w.metadata, l.old_dir, l.new_dir)])
            ELSE Res(w, Audit(l, AuditEntry("user", l.actorId, "folder.update", "folder", id,
                                            [name |-> req.name, parent_id |-> req.parent_id],
                                            w.now),
                              "folder_update:respond"))
    [] l.pc = "folder_update:write_meta" ->
         Res([w EXCEPT !.metadata = l.metadata],
             Audit(l, AuditEntry("user", l.actorId, "folder.update", "folder", id,
                                 [name |-> req.name, parent_id |-> req.parent_id], w.now),
                   "folder_update:respond"))
    [] l.pc = "folder_update:respond" -> Res(w, Respond(l, 200, l.folders[id]))

(* DELETE /api/v1/folders/:id *)
FolderDeleteStep(w, l) ==
  LET id == l.req.id
      parentId == l.folders[id].parent_id
      parentDir == IF parentId = NULL THEN <<>> ELSE DirNameOf(l.folders, parentId)
  IN
  CASE l.pc = "folder_delete:0" ->
         IF ~Has(w.folders, id) THEN Res(w, SendError(l, 404, "not_found"))
         ELSE LET desc == getDescendants(w.folders, id, Cardinality(DOMAIN w.folders) + 1)
              IN IF InSeq("overflow", desc) THEN Res(w, SendError(l, 500, "internal_error"))
                 ELSE Res(w, [At(l, "folder_delete:read_meta") EXCEPT
                                !.folders = w.folders, !.dels = <<id>> \o desc])
    [] l.pc = "folder_delete:read_meta" ->
         Res(w, [At(l, "folder_delete:doc") EXCEPT
                   !.metadata = w.metadata, !.todo = DocKeys(w.metadata), !.changed = FALSE])
    [] l.pc = "folder_delete:doc" ->
         IF l.todo = <<>>
         THEN Res(w, [At(l, IF l.changed THEN "folder_delete:write_meta"
                            ELSE "folder_delete:rm") EXCEPT !.todo = l.dels])
         ELSE LET d == Head(l.todo)
                  meta == l.metadata[d]
              IN IF meta.deleted_at = 0 /\ InSeq(meta.folder_id, l.dels)
                 THEN Res(w, [At(l, IF parentId # NULL THEN "folder_delete:mkdir"
                                    ELSE "folder_delete:rename") EXCEPT
                                !.metadata[d].folder_id = parentId, !.changed = TRUE,
                                !.file_path = meta.file_path,
                                !.new_path = parentDir \o <<Basename(meta.file_path)>>])
                 ELSE Res(w, [l EXCEPT !.todo = Tail(@)])
    [] l.pc = "folder_delete:mkdir" ->
         Res([w EXCEPT !.disk = Mkdir(w.disk, Parent(l.new_path))],
             At(l, "folder_delete:rename"))
    [] l.pc = "folder_delete:rename" ->
         \* try { ... await fs.rename(old, new); file_path = new } catch {}
         IF CanRename(w.disk, l.file_path, l.new_path)
         THEN Res([w EXCEPT !.disk = Rename(w.disk, l.file_path, l.new_path)],
                  [At(l, "folder_delete:doc") EXCEPT
                     !.metadata[Head(l.todo)].file_path = l.new_path, !.todo = Tail(@)])
         ELSE Res(w, [At(l, "folder_delete:doc") EXCEPT !.todo = Tail(@)])
    [] l.pc = "folder_delete:write_meta" ->
         Res([w EXCEPT !.metadata = l.metadata], At(l, "folder_delete:rm"))
    [] l.pc = "folder_delete:rm" ->
         IF l.todo = <<>> THEN Res(w, At(l, "folder_delete:write_folders"))
         ELSE LET fid == Head(l.todo)
              IN Res([w EXCEPT !.disk = Rm(w.disk, DirNameOf(l.folders, fid))],
                     [l EXCEPT !.folders = Remove(l.folders, fid), !.todo = Tail(@)])
    [] l.pc = "folder_delete:write_folders" ->
         Res([w EXCEPT !.folders = l.folders],
             Audit(l, AuditEntry("user", l.actorId, "folder.delete", "folder", id,
                                 [deleted_count |-> Len(l.dels)], w.now),
                   "folder_delete:respond"))
    [] l.pc = "folder_delete:respond" -> Res(w, Respond(l, 204, EmptyMap))

----------------------------------------------------------------------------
(* Chunks. *)

MinChunkTokens == 128
MaxChunkTokens == 4096
DefaultChunkTokens == 1024

Min(a, b) == IF a < b THEN a ELSE b

Max(a, b) == IF a > b THEN a ELSE b

(* Math.min(4096, Math.max(128, parseInt(req.query.max_tokens) || 1024)) *)
ClampMaxTokens(q) ==
  Min(MaxChunkTokens, Max(MinChunkTokens, IF q = 0 THEN DefaultChunkTokens ELSE q))

(* headingPath = headingPath.slice(0, level - 1); headingPath[level - 1] = heading *)
PushHeading(path, level, heading) ==
  [i \in 1..level |->
     IF i = level THEN heading ELSE IF i <= Len(path) THEN path[i] ELSE NULL]

(* A chunk whose line numbers count from 0. *)
MakeChunkFromZero(index, path, lines, start, end) ==
  [index |-> index, heading_path |-> path, text |-> lines,
   token_count_estimate |-> tokenEstimate(JoinLen(lines)),
   start_line |-> start - 1, end_line |-> end - 1]

(* chunks.push({index, heading_path, text, token_count_estimate, ...}) *)
MakeChunk(index, path, lines, start, end) ==
  [index |-> index, heading_path |-> path, text |-> lines,
   token_count_estimate |-> tokenEstimate(JoinLen(lines)),
   start_line |-> start, end_line |-> end]

(* The loop over the lines; i is the line's index from 1. *)
RECURSIVE ChunkLoop(_, _, _, _)
ChunkLoop(lines, maxTokens, i, st) ==
  IF i > Len(lines)
  THEN IF st.cur = <<>> THEN st.chunks
       ELSE Append(st.chunks, MakeChunk(Len(st.chunks), st.path, st.cur, st.start, Len(lines)))
  ELSE LET line == lines[i]
           path == IF line.level > 0 THEN PushHeading(st.path, line.level, line.text)
                   ELSE st.path
           lineTokens == tokenEstimate(LineLen(line))
       IN IF st.tokens + lineTokens > maxTokens /\ st.cur # <<>>
          THEN ChunkLoop(lines, maxTokens, i + 1,
                 [cur |-> <<line>>, tokens |-> lineTokens, start |-> i, path |-> path,
                  chunks |-> Append(st.chunks,
                               MakeChunk(Len(st.chunks), path, st.cur, st.start, i - 1))])
          ELSE ChunkLoop(lines, maxTokens, i + 1,
                 [st EXCEPT !.cur = Append(@, line), !.tokens = @ + lineTokens,
                            !.path = path])

Chunk(lines, maxTokens) ==
  ChunkLoop(lines, maxTokens, 1,
            [cur |-> <<>>, tokens |-> 0, start |-> 1, path |-> <<>>, chunks |-> <<>>])

(* GET /api/v1/documents/:id/chunks *)
ChunksStep(w, l) ==
  LET id == l.req.id
  IN
  CASE l.pc = "chunks:0" ->
         IF ~Live(w.metadata, id) THEN Res(w, SendError(l, 404, "not_found"))
         ELSE Res(w, [At(l, "chunks:read_file") EXCEPT !.metadata = w.metadata])
    [] l.pc = "chunks:read_file" ->
         LET meta == l.metadata[id]
         IN IF ~Has(w.disk.files, meta.file_path)
            THEN Res(w, SendError(l, 500, "internal_error"))
            ELSE Res(w, Respond(l, 200,
                   [document_id |-> id, checksum |-> meta.checksum,
                    chunks |-> Chunk(matter(w.disk.files[meta.file_path]).content.lines,
                                     ClampMaxTokens(l.req.max_tokens))]))

----------------------------------------------------------------------------
(* The handlers together. *)

Step(w, l) ==
  CASE l.pc \in CommonPcs -> CommonStep(w, l)
    [] l.pc \notin CommonPcs /\ l.req.op = "upload" -> UploadStep(w, l)
    [] l.pc \notin CommonPcs /\ l.req.op = "update" -> UpdateStep(w, l)
    [] l.pc \notin CommonPcs /\ l.req.op = "delete" -> DeleteStep(w, l)
    [] l.pc \notin CommonPcs /\ l.req.op = "rollback" -> RollbackStep(w, l)
    [] l.pc \notin CommonPcs /\ l.req.op = "chunks" -> ChunksStep(w, l)
    [] l.pc \notin CommonPcs /\ l.req.op \in {"list", "get", "versions", "download", "search"} ->
         ReadStep(w, l)
    [] l.pc \notin CommonPcs /\ l.req.op \in {"share", "unshare", "resolve_share"} ->
         ShareStep(w, l)
    [] l.pc \notin CommonPcs /\ l.req.op = "create_token" -> TokenStep(w, l)
    [] l.pc \notin CommonPcs /\ l.req.op = "audit_logs" -> AuditLogsStep(w, l)
    [] l.pc \notin CommonPcs /\ l.req.op \in {"batch_delete", "batch_move"} -> BatchStep(w, l)
    [] l.pc \notin CommonPcs /\ l.req.op = "folder_create" -> FolderCreateStep(w, l)
    [] l.pc \notin CommonPcs /\ l.req.op = "folder_update" -> FolderUpdateStep(w, l)
    [] l.pc \notin CommonPcs /\ l.req.op = "folder_delete" -> FolderDeleteStep(w, l)

Ended(l) == l.pc \in {"done", "hang"}

(* A request run from its first step to its response. *)
RECURSIVE Run(_, _)
Run(w, l) == IF Ended(l) THEN Res(w, l) ELSE LET s == Step(w, l) IN Run(s.w, s.l)

Handle(w, req) == Run(w, NewLocal(req))

----------------------------------------------------------------------------
(* The requests of the model. *)

TextA == Text(EmptyMap, <<Line(1, "Intro"), Line(0, "alpha")>>)

TextB == Text("title" :> "Guide", <<Line(0, "beta")>>)

Texts == {TextA, TextB}

Keys == {NoKey, "k1"}

Patches == {EmptyMap, "title" :> "Beta"}

FolderIds == {FolderId(i) : i \in 1..MaxFolders}

Codes == {UNDEF, "pw"}

UploadRequests ==
  {Request([op |-> "upload", has_file |-> TRUE, text |-> t, originalname |-> "Notes",
            folder_id |-> f]) : t \in Texts, f \in {UNDEF, FolderId(1)}}
  \cup {Request([op |-> "upload", has_file |-> TRUE, text |-> TextA,
                 originalname |-> "Notes", key |-> "k1"]),
        Request([op |-> "upload"])}

UpdateRequests ==
  {Request([op |-> "update", id |-> d, has_content |-> TRUE, content_md |-> t,
            patch |-> p]) : d \in DocIds, t \in Texts, p \in Patches}
  \cup {Request([op |-> "update", id |-> d, patch |-> "title" :> "Beta"]) : d \in DocIds}
  \cup {Request([op |-> "update", id |-> d, folder_id |-> f]) :
          d \in DocIds, f \in {UNDEF, NULL, FolderId(1)}}
  \cup {Request([op |-> "update", id |-> DocId(1), has_content |-> TRUE,
                 content_md |-> TextB, key |-> "k1"])}

RollbackRequests ==
  {Request([op |-> "rollback", id |-> d, target_version |-> n]) :
     d \in DocIds, n \in 0..MaxVersions}
  \cup {Request([op |-> "rollback", id |-> DocId(1), target_version |-> 1, key |-> "k1"])}

DeleteRequests == {Request([op |-> "delete", id |-> d]) : d \in DocIds}

IdLists == {<<>>} \cup {<<d>> : d \in DocIds} \cup {<<d, e>> : d, e \in DocIds}

BatchDeleteRequests == {Request([op |-> "batch_delete", ids |-> ids]) : ids \in IdLists}

BatchMoveRequests ==
  {Request([op |-> "batch_move", ids |-> ids, folder_id |-> f]) :
     ids \in IdLists, f \in {NULL, FolderId(1)}}

ShareRequests ==
  {Request([op |-> "share", id |-> d, code |-> c]) : d \in DocIds, c \in Codes}

UnshareRequests == {Request([op |-> "unshare", id |-> ShareId(1)])}

FolderCreateRequests ==
  {Request([op |-> "folder_create", name |-> "A", parent_id |-> p]) :
     p \in {NULL} \cup FolderIds}

FolderUpdateRequests ==
  {Request([op |-> "folder_update", id |-> FolderId(1), name |-> "B"]),
   Request([op |-> "folder_update", id |-> FolderId(2), parent_id |-> NULL]),
   Request([op |-> "folder_update", id |-> FolderId(1), parent_id |-> FolderId(2)])}

FolderDeleteRequests == {Request([op |-> "folder_delete", id |-> f]) : f \in FolderIds}

----------------------------------------------------------------------------
(* The specifications. *)

Slots == {1, 2}

(* The state init() leaves: every table empty, the upload directory empty. *)
Init ==
  /\ metadata = EmptyMap
  /\ versions = EmptyMap
  /\ folders = EmptyMap
  /\ agent_tokens = EmptyMap
  /\ audit_logs = <<>>
  /\ idempotency_keys = EmptyMap
  /\ shares = EmptyMap
  /\ disk = [files |-> EmptyMap, dirs |-> {<<>>}]
  /\ uuids = [doc |-> 0, folder |-> 0, token |-> 0, share |-> 0]
  /\ now = 1
  /\ procs = [p \in Slots |-> Idle]

(* The model stops where a table would outgrow its bound. *)
WithinBounds(w) ==
  /\ w.uuids.doc <= MaxDocs
  /\ w.uuids.folder <= MaxFolders
  /\ w.uuids.token <= MaxTokens
  /\ \A d \in DOMAIN w.versions : Len(w.versions[d]) <= MaxVersions

Install(w) ==
  /\ metadata' = w.metadata
  /\ versions' = w.versions
  /\ folders' = w.folders
  /\ agent_tokens' = w.agent_tokens
  /\ audit_logs' = w.audit_logs
  /\ idempotency_keys' = w.idempotency_keys
  /\ shares' = w.shares
  /\ disk' = w.disk
  /\ uuids' = w.uuids
  /\ now' = w.now

(* One request, from its arrival to its response, with no other request in *)
(* flight.                                                                 *)
Quiet == \A p \in Slots : procs[p].pc = "idle"

Do(req) ==
  LET r == Handle(World, req)
  IN /\ r.l.pc = "done"
     /\ WithinBounds(r.w)
     /\ Len(r.w.audit_logs) <= MaxAudit
     /\ Install(r.w)
     /\ UNCHANGED procs

Upload == \E req \in UploadRequests : Quiet /\ Do(req)

Update == \E req \in UpdateRequests : Quiet /\ Do(req)

Rollback == \E req \in RollbackRequests : Quiet /\ Do(req)

SoftDelete == \E req \in DeleteRequests : Quiet /\ Do(req)

BatchDelete == \E req \in BatchDeleteRequests : Quiet /\ Do(req)

BatchMove == \E req \in BatchMoveRequests : Quiet /\ Do(req)

FolderCreate == \E req \in FolderCreateRequests : Quiet /\ Do(req)

FolderUpdate == \E req \in FolderUpdateRequests : Quiet /\ Do(req)

FolderDelete == \E req \in FolderDeleteRequests : Quiet /\ Do(req)

CreateShare == \E req \in ShareRequests : Quiet /\ Do(req)

DeleteShare == \E req \in UnshareRequests : Quiet /\ Do(req)

Next ==
  \/ Upload
  \/ Update
  \/ Rollback
  \/ SoftDelete
  \/ BatchDelete
  \/ BatchMove
  \/ FolderCreate
  \/ FolderUpdate
  \/ FolderDelete
  \/ CreateShare
  \/ DeleteShare

Spec == Init /\ [][Next]_vars

----------------------------------------------------------------------------
(* Requests in flight together.  The server is one process: a handler runs *)
(* until it awaits, and every read or write of a file is awaited, so the   *)
(* steps of two handlers interleave at those points.  Documents are        *)
(* uploaded one at a time first; then each slot takes one request.         *)

ConcRequests ==
  {Request([op |-> "upload", has_file |-> TRUE, text |-> TextA, originalname |-> "Notes",
            key |-> "k1"])}
  \cup {Request([op |-> "update", id |-> DocId(1), has_content |-> TRUE,
                 content_md |-> TextB, key |-> "k1"])}
  \cup {Request([op |-> "update", id |-> d, patch |-> "title" :> "Beta"]) : d \in DocIds}
  \cup {Request([op |-> "delete", id |-> DocId(2)])}

UnchangedWorld ==
  UNCHANGED <<metadata, versions, folders, agent_tokens, audit_logs, idempotency_keys,
              shares, disk, uuids, now>>

(* A request arrives. *)
Begin(p) ==
  \E req \in ConcRequests :
     /\ procs[p].pc = "idle"
     /\ procs' = [procs EXCEPT ![p] = NewLocal(req)]
     /\ UnchangedWorld

(* A handler runs to its next await. *)
Advance(p) ==
  /\ procs[p].pc \notin {"idle", "done", "hang"}
  /\ LET s == Step(World, procs[p])
     IN /\ WithinBounds(s.w)
        /\ Install(s.w)
        /\ procs' = [procs EXCEPT ![p] = s.l]

NextConc ==
  \/ Upload
  \/ \E p \in Slots : Begin(p) \/ Advance(p)

SpecConc == Init /\ [][NextConc]_vars

----------------------------------------------------------------------------
(* Requests on one document in flight together.  The document is uploaded; *)
(* then each slot takes one request that changes its content or deletes    *)
(* it, and the steps of the two handlers interleave.                       *)

RaceUploadRequests ==
  {Request([op |-> "upload", has_file |-> TRUE, text |-> TextA, originalname |-> "Notes"])}

RaceRequests ==
  {Request([op |-> "update", id |-> DocId(1), has_content |-> TRUE, content_md |-> TextB]),
   Request([op |-> "rollback", id |-> DocId(1), target_version |-> 1]),
   Request([op |-> "delete", id |-> DocId(1)])}

RaceUpload == \E req \in RaceUploadRequests : Quiet /\ uuids.doc = 0 /\ Do(req)

BeginRace(p) ==
  \E req \in RaceRequests :
     /\ procs[p].pc = "idle"
     /\ uuids.doc = 1
     /\ procs' = [procs EXCEPT ![p] = NewLocal(req)]
     /\ UnchangedWorld

NextRace ==
  \/ RaceUpload
  \/ \E p \in Slots : BeginRace(p) \/ Advance(p)

SpecRace == Init /\ [][NextRace]_vars

----------------------------------------------------------------------------
(* Agents.  Tokens are created by a user; the clock moves, so that a token *)
(* can expire; agents and users call the routes behind requireScope.       *)

SecretA == <<"agt_0001", "a">>

SecretB == <<"agt_0002", "b">>

(* A second secret whose first eight characters are those of SecretA. *)
SecretA2 == <<"agt_0001", "c">>

Secrets == {SecretA, SecretB, SecretA2}

TokenRequests ==
  {Request([op |-> "create_token", name |-> "reader", scopes |-> {"documents:read"},
            draw |-> SecretA]),
   Request([op |-> "create_token", name |-> "writer",
            scopes |-> {"documents:read", "documents:write"}, expires_at |-> 2,
            draw |-> SecretB]),
   Request([op |-> "create_token", name |-> "writer",
            scopes |-> {"documents:read", "documents:write"}, draw |-> SecretA2]),
   Request([op |-> "create_token", name |-> "none", draw |-> SecretB])}

Creds == {UserCred("alice"), BadJwt} \cup {AgentCred(s) : s \in Secrets}

ScopedRequests ==
  {Request([op |-> "upload", has_file |-> TRUE, text |-> TextA, originalname |-> "Notes",
            cred |-> c]) : c \in Creds}
  \cup {Request([op |-> "update", id |-> DocId(1), has_content |-> TRUE,
                 content_md |-> TextB, cred |-> c]) : c \in Creds}
  \cup {Request([op |-> o, id |-> DocId(1), cred |-> c]) :
          o \in {"get", "versions"}, c \in Creds}

CreateToken == \E req \in TokenRequests : Quiet /\ Do(req)

Call == \E req \in ScopedRequests : Quiet /\ Do(req)

Tick ==
  /\ now < MaxClock
  /\ now' = now + 1
  /\ UNCHANGED <<metadata, versions, folders, agent_tokens, audit_logs, idempotency_keys,
                 shares, disk, uuids, procs>>

NextAuth ==
  \/ CreateToken
  \/ Call
  \/ Tick

SpecAuth == Init /\ [][NextAuth]_vars

----------------------------------------------------------------------------
(* Failing writes.  The write of audit_logs.json can fail (a full disk, a  *)
(* file that cannot be written) while the other files are written.         *)

AuditedRequests ==
  {Request([op |-> "upload", has_file |-> TRUE, text |-> TextA, originalname |-> "Notes"]),
   Request([op |-> "update", id |-> DocId(1), has_content |-> TRUE, content_md |-> TextB]),
   Request([op |-> "update", id |-> DocId(1), patch |-> "title" :> "Beta"]),
   Request([op |-> "rollback", id |-> DocId(1), target_version |-> 1]),
   Request([op |-> "delete", id |-> DocId(2)]),
   Request([op |-> "folder_create", name |-> "A", parent_id |-> NULL]),
   Request([op |-> "folder_delete", id |-> FolderId(1)])}

FaultRequests == {[req EXCEPT !.fault = "audit_write"] : req \in AuditedRequests}

(* A request served while audit_logs.json cannot be written. *)
AuditFails == \E req \in FaultRequests : Quiet /\ Do(req)

NextFault ==
  \/ Upload
  \/ AuditFails

SpecFault == Init /\ [][NextFault]_vars

----------------------------------------------------------------------------
(* The folder tree.  Folders are created, renamed, moved and deleted, and  *)
(* documents are uploaded into them, one request at a time, in any order,  *)
(* up to MaxOps requests.                                                  *)

TreeCreateRequests ==
  {Request([op |-> "folder_create", name |-> "A", parent_id |-> NULL]),
   Request([op |-> "folder_create", name |-> "B", parent_id |-> FolderId(1)]),
   Request([op |-> "folder_create", name |-> "C", parent_id |-> NULL])}

TreeRenameRequests ==
  {Request([op |-> "folder_update", id |-> f, name |-> "C"]) :
     f \in {FolderId(1), FolderId(2)}}

TreeReparentRequests ==
  {Request([op |-> "folder_update", id |-> FolderId(2), parent_id |-> NULL]),
   Request([op |-> "folder_update", id |-> FolderId(3), parent_id |-> FolderId(2)]),
   Request([op |-> "folder_update", id |-> FolderId(1), parent_id |-> FolderId(1)]),
   Request([op |-> "folder_update", id |-> FolderId(1), parent_id |-> FolderId(2)])}

TreeDeleteRequests ==
  {Request([op |-> "folder_delete", id |-> f]) : f \in {FolderId(1), FolderId(2)}}

TreeUploadRequests ==
  {Request([op |-> "upload", has_file |-> TRUE, text |-> TextA, originalname |-> "Notes",
            folder_id |-> f]) : f \in {UNDEF, FolderId(2)}}

DoTree(req) ==
  LET r == Handle(World, req)
  IN /\ r.l.pc = "done"
     /\ WithinBounds(r.w)
     /\ Len(r.w.audit_logs) <= MaxOps
     /\ Install(r.w)
     /\ UNCHANGED procs

TreeCreate == \E req \in TreeCreateRequests : Quiet /\ DoTree(req)

TreeRename == \E req \in TreeRenameRequests : Quiet /\ DoTree(req)

TreeReparent == \E req \in TreeReparentRequests : Quiet /\ DoTree(req)

TreeDelete == \E req \in TreeDeleteRequests : Quiet /\ DoTree(req)

TreeUpload == \E req \in TreeUploadRequests : Quiet /\ DoTree(req)

NextTree ==
  \/ TreeCreate
  \/ TreeRename
  \/ TreeReparent
  \/ TreeDelete
  \/ TreeUpload

SpecTree == Init /\ [][NextTree]_vars

----------------------------------------------------------------------------
(* Folder requests in flight together.  Folders are created and documents  *)
(* uploaded one request at a time first; then each slot takes one request  *)
(* on the tree, and the steps of the two handlers interleave.              *)

PrefixCreateRequests ==
  {Request([op |-> "folder_create", name |-> "A", parent_id |-> NULL]),
   Request([op |-> "folder_create", name |-> "B", parent_id |-> FolderId(1)])}

PrefixUploadRequests ==
  {Request([op |-> "upload", has_file |-> TRUE, text |-> TextA, originalname |-> "Notes",
            folder_id |-> FolderId(2)])}

(* The request of the first slot is a move or a rename, that of the second *)
(* a move, a delete or a create.                                           *)
ConcTreeRequests(p) ==
  IF p = 1
  THEN {Request([op |-> "folder_update", id |-> FolderId(3), parent_id |-> FolderId(2)]),
        Request([op |-> "folder_update", id |-> FolderId(2), name |-> "C"])}
  ELSE {Request([op |-> "folder_update", id |-> FolderId(1), parent_id |-> FolderId(3)]),
        Request([op |-> "folder_delete", id |-> FolderId(2)]),
        Request([op |-> "folder_create", name |-> "B", parent_id |-> FolderId(1)])}

PrefixCreate == \E req \in PrefixCreateRequests : Quiet /\ DoTree(req)

PrefixUpload == \E req \in PrefixUploadRequests : Quiet /\ DoTree(req)

BeginTree(p) ==
  \E req \in ConcTreeRequests(p) :
     /\ procs[p].pc = "idle"
     /\ procs' = [procs EXCEPT ![p] = NewLocal(req)]
     /\ UnchangedWorld

NextTreeConc ==
  \/ PrefixCreate
  \/ PrefixUpload
  \/ \E p \in Slots : BeginTree(p) \/ Advance(p)

SpecTreeConc == Init /\ [][NextTreeConc]_vars

----------------------------------------------------------------------------
(* Documents to chunk.  One document is uploaded with a body of up to      *)
(* MaxLines lines and then edited; the lines are empty, short, headings,   *)
(* or long enough to fill or overrun each budget the endpoint can have     *)
(* (128, the default 1024, 4096).                                          *)

(* A line of n characters. *)
RECURSIVE Pad(_)
Pad(n) ==
  IF n = 0 THEN ""
  ELSE IF n % 2 = 0 THEN LET h == Pad(n \div 2) IN h \o h
  ELSE "x" \o Pad(n - 1)

ChunkLines ==
  {Line(0, ""), Line(0, "alpha"), Line(1, "Intro"), Line(2, "Part"),
   Line(0, Pad(256)), Line(0, Pad(520)), Line(0, Pad(2080)), Line(0, Pad(8200))}

ChunkBodies == UNION {[1..n -> ChunkLines] : n \in 1..MaxLines}

ChunkUploadRequests ==
  {Request([op |-> "upload", has_file |-> TRUE, text |-> Text(EmptyMap, b),
            originalname |-> "Notes"]) : b \in ChunkBodies}

ChunkEditRequests ==
  {Request([op |-> "update", id |-> DocId(1), has_content |-> TRUE,
            content_md |-> Text(fm, b), patch |-> EmptyMap]) :
     fm \in {"title" :> "Guide"},
     b \in {<<Line(0, Pad(256)), Line(0, Pad(256)), Line(1, "Intro")>>,
            <<Line(2, "Part"), Line(0, Pad(520))>>}}

ChunkUpload ==
  \E req \in ChunkUploadRequests : Quiet /\ uuids.doc = 0 /\ Do(req)

ChunkEdit == \E req \in ChunkEditRequests : Quiet /\ Do(req)

NextChunk == ChunkUpload \/ ChunkEdit

SpecChunk == Init /\ [][NextChunk]_vars

----------------------------------------------------------------------------
(* Stores to reject requests on: documents, folders and agent tokens are   *)
(* created and documents deleted, one request at a time.                   *)

NextFrame ==
  \/ Upload
  \/ FolderCreate
  \/ CreateToken
  \/ SoftDelete

SpecFrame == Init /\ [][NextFrame]_vars

----------------------------------------------------------------------------
(* Properties of the version ledger, of requests served one at a time.     *)

Did(action) == \E i \in 1..Len(audit_logs) : audit_logs[i].action = action

Deleted(d) == Has(metadata, d) /\ metadata[d].deleted_at # 0

(* The handler of req would run: its key, if it has one, is not stored. *)
Executes(req) == req.key = NoKey \/ ~Has(idempotency_keys, req.key)

Succeeds(r) == r.l.pc = "done" /\ r.l.status \in {200, 201, 204}

Fails(r, status, code) ==
  r.l.pc = "done" /\ r.l.status = status /\ r.l.body = [error |-> code]

Extends(new, old) ==
  Len(new) >= Len(old) /\ SubSeq(new, 1, Len(old)) = old

(* C1: after any sequence of completed operations every document has a     *)
(* version chain, the version numbers of the chain are 1, 2, ..., n in     *)
(* order, and the document's latest_version is n, the number of rows.      *)
VersionChainGapFree ==
  /\ DOMAIN versions = DOMAIN metadata
  /\ \A d \in DOMAIN metadata :
       /\ Len(versions[d]) >= 1
       /\ \A i \in 1..Len(versions[d]) : versions[d][i].version_number = i
       /\ metadata[d].latest_version = Len(versions[d])

(* C1 witness: a document uploaded, updated and rolled back has three rows. *)
ChainOfThree ==
  /\ Did("document.update")
  /\ Did("document.rollback")
  /\ \E d \in DOMAIN metadata : metadata[d].latest_version = 3 /\ Len(versions[d]) = 3

(* A rollback of document req.id to req.target_version that runs and       *)
(* succeeds appends one row, numbered latest_version + 1, with the content *)
(* of the row numbered target_version; a second, equal rollback after it   *)
(* appends one more row with the next number and the same content.         *)
RollbackAppends ==
  \A req \in RollbackRequests :
    LET r == Handle(World, req)
        d == req.id
    IN (Succeeds(r) /\ Executes(req)) =>
         LET old == versions[d]
             new == r.w.versions[d]
             row == new[Len(new)]
             again == Handle(r.w, req)
         IN /\ Len(new) = Len(old) + 1
            /\ Extends(new, old)
            /\ row.version_number = metadata[d].latest_version + 1
            /\ r.w.metadata[d].latest_version = metadata[d].latest_version + 1
            /\ \E i \in 1..Len(old) : old[i].version_number = req.target_version
            /\ \A i \in 1..Len(old) :
                 old[i].version_number = req.target_version =>
                   row.content_md = old[i].content_md
            /\ \A e \in DOMAIN versions \ {d} : r.w.versions[e] = versions[e]
            /\ (req.key = NoKey) =>
                 /\ Succeeds(again)
                 /\ Len(again.w.versions[d]) = Len(new) + 1
                 /\ again.w.versions[d][Len(new) + 1].version_number
                      = row.version_number + 1
                 /\ again.w.versions[d][Len(new) + 1].content_md = row.content_md

LatestNeverDecreases ==
  \A d \in DOMAIN metadata :
    Has(metadata', d) /\ metadata'[d].latest_version >= metadata[d].latest_version

(* C2: a successful rollback to version N appends exactly one version,     *)
(* numbered latest_version + 1, whose content is that of version N;        *)
(* repeating it gives a further, higher number; and no step of any         *)
(* operation lowers a document's latest_version.                           *)
RollbackIsAppendOnly == []RollbackAppends /\ [][LatestNeverDecreases]_vars

(* C2 witness: two rollbacks to version 1 in a row gave versions 2 and 3.  *)
RolledBackTwice ==
  \E d \in DOMAIN metadata :
    /\ Len(versions[d]) = 3
    /\ Len(audit_logs) = 3
    /\ \A i \in {2, 3} :
         /\ audit_logs[i].action = "document.rollback"
         /\ audit_logs[i].resource_id = d
         /\ audit_logs[i].metadata.target_version = 1
         /\ audit_logs[i].metadata.new_version = i
         /\ versions[d][i].content_md = versions[d][1].content_md

(* C3: a request to an idempotency-aware route whose key has a stored      *)
(* response is answered with that stored response, verbatim, with status   *)
(* 200, and changes nothing; and the response stored under a key is the    *)
(* body the first completed attempt returned.                              *)
ReplayReturnsStored ==
  \A q \in UploadRequests \cup UpdateRequests \cup RollbackRequests :
    \A k \in Keys \ {NoKey} :
      LET req == [q EXCEPT !.key = k]
          r == Handle(World, req)
      IN IF Has(idempotency_keys, k)
         THEN /\ r.l.pc = "done"
              /\ r.l.status = 200
              /\ r.l.body = idempotency_keys[k].response
              /\ r.w = World
         ELSE Succeeds(r) =>
                /\ Has(r.w.idempotency_keys, k)
                /\ r.w.idempotency_keys[k].response = r.l.body
                /\ Handle(r.w, req).l.body = r.l.body
                /\ Handle(r.w, req).w = r.w

(* C3 witness: an update that ran under key k1 and appended version 2; the *)
(* same update sent again would append nothing.                            *)
KeyedUpdateStored ==
  /\ Has(idempotency_keys, "k1")
  /\ Has(metadata, DocId(1))
  /\ metadata[DocId(1)].latest_version = 2
  /\ idempotency_keys["k1"].response.summary.latest_version = 2
  /\ \E req \in UpdateRequests :
       /\ req.key = "k1"
       /\ Handle(World, req).w.versions = versions

(* What a client may ask of document d. *)
ListQueries ==
  {Request([op |-> "list"]),
   Request([op |-> "list", sort_by |-> "title", sort_order |-> "asc"]),
   Request([op |-> "list", folder_id |-> "root"])}

SearchQueries ==
  {Request([op |-> "search", q |-> x]) : x \in {"Notes", "Guide", "Beta", "alpha", "beta"}}

Returned(req) ==
  LET b == Handle(World, req).l.body
  IN {b.data[i].id : i \in 1..Len(b.data)}

ReadsOf(d) ==
  {Request([op |-> o, id |-> d]) : o \in {"get", "chunks", "download"}}

ResolvesOf(d, codes) ==
  {Request([op |-> "resolve_share", token |-> shares[sid].token, code |-> c]) :
     sid \in {x \in DOMAIN shares : shares[x].document_id = d}, c \in codes}

NotFound(req) == Fails(Handle(World, req), 404, "not_found")

(* The parts of C5 that hold of every request. *)
DeletedIsHidden(d) ==
  /\ \A req \in ListQueries \cup SearchQueries : d \notin Returned(req)
  /\ \A req \in ReadsOf(d) : NotFound(req)
  /\ \A req \in DeleteRequests : req.id = d => NotFound(req)
  /\ LET r == Handle(World, Request([op |-> "versions", id |-> d]))
     IN /\ Succeeds(r)
        /\ Len(r.l.body.versions) = metadata[d].latest_version
        /\ r.l.body.versions =
             [i \in 1..Len(versions[d]) |-> VersionSummary(versions[d][i])]

(* C5 as it is stated: once a document is soft-deleted, List and Search    *)
(* leave it out; Get, chunks, download and every resolution of a share     *)
(* link to it answer not_found; every Update, Rollback and SoftDelete of   *)
(* it answers not_found; ListVersions still returns its whole chain.       *)
DeletedAlwaysNotFound ==
  \A d \in DOMAIN metadata :
    Deleted(d) =>
      /\ DeletedIsHidden(d)
      /\ \A req \in ResolvesOf(d, Codes \cup {"other"}) : NotFound(req)
      /\ \A req \in UpdateRequests \cup RollbackRequests : req.id = d => NotFound(req)

(* C5 amended: the same, where the resolution of a share link carries the  *)
(* access code of the link (or the link has none), the rollback names a    *)
(* target_version, and the update or rollback does not carry an            *)
(* Idempotency-Key whose response is stored.  A wrong access code is       *)
(* answered forbidden, a rollback without target_version validation_error, *)
(* and a stored key its stored response, whatever became of the document.  *)
DeletedNotFoundUnlessRejectedEarlier ==
  \A d \in DOMAIN metadata :
    Deleted(d) =>
      /\ DeletedIsHidden(d)
      /\ \A sid \in DOMAIN shares :
           shares[sid].document_id = d =>
             \A c \in Codes \cup {"other"} :
               LET req == Request([op |-> "resolve_share", token |-> shares[sid].token,
                                   code |-> c])
               IN IF shares[sid].access_code \in {NULL, c} THEN NotFound(req)
                  ELSE Fails(Handle(World, req), 403, "forbidden")
      /\ \A req \in UpdateRequests \cup RollbackRequests :
           req.id = d =>
             IF ~Executes(req)
             THEN Handle(World, req).l.body = idempotency_keys[req.key].response
             ELSE IF req.op = "rollback" /\ req.target_version = 0
             THEN Fails(Handle(World, req), 400, "validation_error")
             ELSE NotFound(req)

(* C5 witness: a soft-deleted document that a share link with an access    *)
(* code still points to.                                                   *)
DeletedWithShare ==
  \E d \in DOMAIN metadata :
    /\ Deleted(d)
    /\ Did("document.delete")
    /\ \E sid \in DOMAIN shares :
         shares[sid].document_id = d /\ shares[sid].access_code = "pw"

RowsKept ==
  \A d \in DOMAIN versions : Has(versions', d) /\ Extends(versions'[d], versions[d])

(* C8: no operation changes or removes a version row that exists: every    *)
(* step leaves each chain with its old rows, in their places, unchanged.   *)
VersionRowsImmutable == [][RowsKept]_vars

(* C8 witness: a document that was updated and then soft-deleted still has  *)
(* both of its rows.                                                       *)
TwoRowsKeptAfterDelete ==
  \E d \in DOMAIN metadata :
    /\ Deleted(d)
    /\ Len(versions[d]) = 2
    /\ Did("document.update")

(* C9: the checksum of each document is the checksum on the row of its     *)
(* highest version.                                                        *)
ChecksumIsLatestRows ==
  \A d \in DOMAIN metadata :
    /\ Has(versions, d)
    /\ versions[d] # <<>>
    /\ metadata[d].checksum = versions[d][Len(versions[d])].checksum
    /\ \A i \in 1..Len(versions[d]) :
         versions[d][i].version_number <= versions[d][Len(versions[d])].version_number

(* C9 witness: a rollback changed the checksum: rows 2 and 3 differ, and   *)
(* the document carries the checksum of row 3.                             *)
RollbackChangedChecksum ==
  \E d \in DOMAIN metadata :
    /\ Len(versions[d]) = 3
    /\ audit_logs[Len(audit_logs)].action = "document.rollback"
    /\ versions[d][3].checksum # versions[d][2].checksum
    /\ metadata[d].checksum = versions[d][3].checksum

----------------------------------------------------------------------------
(* Properties of requests in flight together. *)

(* The document a handler works on. *)
DocOf(l) == IF l.req.op = "upload" THEN l.id ELSE l.req.id

(* The handler ran to its end and wrote the metadata table. *)
Mutated(l) ==
  /\ l.pc = "done"
  /\ l.status \in {200, 201, 204}
  /\ Has(l.metadata, DocOf(l))

(* The handler ran to its end under key k: it was not answered from the    *)
(* stored responses.                                                       *)
RanUnderKey(l, k) ==
  /\ l.pc = "done"
  /\ l.status \in {200, 201}
  /\ l.req.key = k
  /\ l.idempotencyKey = k

(* C4: of the requests that carry one Idempotency-Key, at most one runs    *)
(* its handler to the end, also when they are in flight together.          *)
MutationOncePerKey ==
  \A k \in Keys \ {NoKey} :
    Cardinality({p \in Slots : RanUnderKey(procs[p], k)}) <= 1

(* C10: when two mutations of different documents have both succeeded,    *)
(* the metadata table holds what each of them wrote for its document.      *)
BothMutationsReflected ==
  \A p, q \in Slots :
    (/\ p # q
     /\ Mutated(procs[p])
     /\ Mutated(procs[q])
     /\ DocOf(procs[p]) # DocOf(procs[q]))
    => /\ Has(metadata, DocOf(procs[p]))
       /\ metadata[DocOf(procs[p])] = procs[p].metadata[DocOf(procs[p])]

----------------------------------------------------------------------------
(* Properties of the scope gateway. *)

(* The tokens that make a secret acceptable for a scope: prefix and hash   *)
(* match, the token has not expired, and it holds the scope.               *)
Admits(t, secret, scope) ==
  /\ t.token_prefix = SecretPrefix(secret)
  /\ t.token_hash = sha256(secret)
  /\ t.expires_at = 0 \/ t.expires_at >= now
  /\ scope \in t.scopes

(* Nothing but the tokens' last_used_at differs between World and w. *)
OperationNotRun(w) ==
  /\ w.metadata = metadata
  /\ w.versions = versions
  /\ w.folders = folders
  /\ w.audit_logs = audit_logs
  /\ w.idempotency_keys = idempotency_keys
  /\ w.shares = shares
  /\ w.disk = disk
  /\ w.uuids = uuids

Rejected(r) ==
  \/ Fails(r, 401, "unauthorized")
  \/ Fails(r, 403, "forbidden")

(* C6: a request with an agent credential gets past the gateway only if    *)
(* some stored token has the prefix and the hash of the credential, has    *)
(* not expired and holds the scope of the route; otherwise it is answered  *)
(* unauthorized or forbidden and the operation does not run; it does get   *)
(* past when the first token with its prefix is such a token.  A request   *)
(* of a user is never stopped for a scope.                                 *)
AgentNeedsTokenAndScope ==
  \A req \in ScopedRequests :
    LET r == Handle(World, req)
        scope == RouteScope(req.op)
    IN /\ r.l.pc = "done"
       /\ (req.cred.kind = "agent" /\ RouteAuth(req.op) = "agent") =>
            IF \E t \in DOMAIN agent_tokens :
                 Admits(agent_tokens[t], req.cred.secret, scope)
            THEN /\ Rejected(r) => OperationNotRun(r.w)
                 /\ LET tid == FindToken(agent_tokens, req.cred.secret)
                    IN Admits(agent_tokens[tid], req.cred.secret, scope) => ~Rejected(r)
            ELSE Rejected(r) /\ OperationNotRun(r.w)
       /\ (req.cred.kind = "agent" /\ RouteAuth(req.op) = "jwt") =>
            Fails(r, 401, "unauthorized") /\ r.w = World
       /\ (req.cred.kind = "jwt" /\ req.cred.valid) => ~Rejected(r)
       /\ (req.cred.kind = "jwt" /\ ~req.cred.valid) =>
            Fails(r, 401, "unauthorized") /\ r.w = World

(* C6 witness: an agent has updated a document with a token that has since *)
(* expired.                                                                *)
AgentWroteThenExpired ==
  /\ \E i \in 1..Len(audit_logs) :
       audit_logs[i].actor_type = "agent" /\ audit_logs[i].action = "document.update"
  /\ \E t \in DOMAIN agent_tokens :
       /\ agent_tokens[t].expires_at # 0
       /\ agent_tokens[t].expires_at < now
       /\ agent_tokens[t].last_used_at # 0

----------------------------------------------------------------------------
(* Properties of uploads into folders. *)

(* C17: an upload whose folder_id names no folder is answered with a       *)
(* validation error, and leaves the documents, the version chains and the  *)
(* audit log as they were.                                                 *)
UnknownFolderUploadRejected ==
  \A req \in UploadRequests :
    (/\ req.has_file
     /\ req.folder_id \notin {UNDEF, NULL}
     /\ ~Has(folders, req.folder_id)
     /\ Executes(req))
    => LET r == Handle(World, req)
       IN /\ Fails(r, 400, "validation_error")
          /\ r.w.metadata = metadata
          /\ r.w.versions = versions
          /\ r.w.audit_logs = audit_logs

----------------------------------------------------------------------------
(* Properties of the audit log. *)

(* C20: the audit log only grows, also when requests are in flight         *)
(* together: every step leaves the entries written so far in place, in     *)
(* order and unchanged.                                                    *)
AuditLogOnlyGrows == [][Extends(audit_logs', audit_logs)]_vars

(* C19: a request whose business mutation is applied gets the success      *)
(* response of its operation also when the write of the audit entry fails: *)
(* whenever the request would succeed with the audit log writable, it      *)
(* succeeds with the audit log unwritable.                                 *)
AuditFailureNotFatal ==
  \A req \in AuditedRequests :
    Succeeds(Handle(World, req)) =>
      Succeeds(Handle(World, [req EXCEPT !.fault = "audit_write"]))

----------------------------------------------------------------------------
(* Properties of agent secrets. *)

AuditLogQueries ==
  {Request([op |-> "audit_logs"]),
   Request([op |-> "audit_logs", action |-> "agent_token.create"]),
   Request([op |-> "audit_logs", actor_type |-> "agent"])}

(* An audit entry of a token's creation tells the token's name and scopes  *)
(* and nothing else of the request.                                        *)
EntryKeepsSecret(e) ==
  e.action = "agent_token.create" =>
    /\ Has(agent_tokens, e.resource_id)
    /\ e.metadata = [name |-> agent_tokens[e.resource_id].name,
                     scopes |-> agent_tokens[e.resource_id].scopes]

(* C18: no stored token holds a plaintext secret (its token_hash is the    *)
(* hash of a secret, never a secret), no audit entry and no stored         *)
(* idempotent response carries one, and no request made later (a document  *)
(* route with any credential, a read of the audit log) is answered with    *)
(* one; the request that creates a token is answered with the secret it    *)
(* drew.                                                                   *)
SecretShownOnlyAtCreation ==
  /\ \A t \in DOMAIN agent_tokens :
       /\ agent_tokens[t].token_hash \notin Secrets
       /\ \E s \in Secrets : agent_tokens[t].token_hash = sha256(s)
       /\ ~Has(agent_tokens[t], "secret_token")
  /\ \A i \in 1..Len(audit_logs) : EntryKeepsSecret(audit_logs[i])
  /\ \A k \in DOMAIN idempotency_keys :
       ~Has(idempotency_keys[k].response, "secret_token")
  /\ \A req \in ScopedRequests \cup AuditLogQueries :
       LET r == Handle(World, req)
       IN /\ r.l.pc = "done"
          /\ ~Has(r.l.body, "secret_token")
          /\ (req.op = "audit_logs" /\ Succeeds(r)) =>
               \A i \in 1..Len(r.l.body.data) : EntryKeepsSecret(r.l.body.data[i])
          /\ \A t \in DOMAIN r.w.agent_tokens :
               r.w.agent_tokens[t].token_hash \notin Secrets
  /\ \A req \in TokenRequests :
       LET r == Handle(World, req)
       IN Succeeds(r) =>
            /\ r.l.body.secret_token = req.draw
            /\ r.w.agent_tokens[r.l.body.id].token_hash = sha256(req.draw)
            /\ \A i \in 1..Len(r.w.audit_logs) :
                 r.w.audit_logs[i].action = "agent_token.create" =>
                   DOMAIN r.w.audit_logs[i].metadata = {"name", "scopes"}

(* C18 witness: two tokens have been created, an agent has used one of     *)
(* them, and the audit log read back shows a creation entry.               *)
TokensCreatedUsedAndListed ==
  /\ Cardinality(DOMAIN agent_tokens) = 2
  /\ \E t \in DOMAIN agent_tokens : agent_tokens[t].last_used_at # 0
  /\ LET r == Handle(World, Request([op |-> "audit_logs", action |-> "agent_token.create"]))
     IN Succeeds(r) /\ Len(r.l.body.data) = 2

----------------------------------------------------------------------------
(* Properties of the folder tree, of requests served one at a time. *)

(* The folders met on the way up from folder f along parent_id, as far as *)
(* fuel steps go.                                                          *)
RECURSIVE Ancestors(_, _, _)
Ancestors(fs, f, fuel) ==
  IF fuel = 0 \/ ~Has(fs, f) \/ fs[f].parent_id = NULL THEN {}
  ELSE {fs[f].parent_id} \cup Ancestors(fs, fs[f].parent_id, fuel - 1)

(* Folder f lies below folder F along the parent_id chain. *)
Below(fs, f, F) == f # F /\ F \in Ancestors(fs, f, Cardinality(DOMAIN fs))

Subtree(fs, F) == {F} \cup {f \in DOMAIN fs : Below(fs, f, F)}

Children(fs, F) == {f \in DOMAIN fs : fs[f].parent_id = F}

(* C12: a rename of folder F that succeeds rewrites the dir_name of every  *)
(* folder below F and the file_path of every live document whose folder is *)
(* F or below F, putting F's new dir_name in the place of the old one, and *)
(* leaves the dir_name of every other folder and the file_path of every    *)
(* other document as it was.                                               *)
RenameRewritesSubtreeOnly ==
  \A req \in TreeRenameRequests :
    LET F == req.id
        r == Handle(World, req)
    IN (Has(folders, F) /\ Succeeds(r)) =>
         LET old == folders[F].dir_name
             new == r.w.folders[F].dir_name
             sub == Subtree(folders, F)
         IN /\ \A f \in DOMAIN folders \ {F} :
                 IF f \in sub
                 THEN /\ IsPrefix(old, folders[f].dir_name)
                      /\ r.w.folders[f].dir_name = Moved(old, new, folders[f].dir_name)
                 ELSE r.w.folders[f].dir_name = folders[f].dir_name
            /\ \A d \in DOMAIN metadata :
                 IF metadata[d].deleted_at = 0 /\ metadata[d].folder_id \in sub
                 THEN /\ IsPrefix(old, metadata[d].file_path)
                      /\ r.w.metadata[d].file_path = Moved(old, new, metadata[d].file_path)
                 ELSE r.w.metadata[d].file_path = metadata[d].file_path

(* C14: a delete of folder F that succeeds removes F and every folder      *)
(* below F from the table and leaves every other folder's record as it     *)
(* was; every live document whose folder was one of those removed has F's  *)
(* former parent as its folder, and every other document keeps its folder. *)
DeleteRemovesSubtree ==
  \A req \in TreeDeleteRequests :
    LET F == req.id
        r == Handle(World, req)
    IN /\ r.l.pc = "done"
       /\ Has(folders, F) => Succeeds(r)
       /\ (Has(folders, F) /\ Succeeds(r)) =>
            LET gone == Subtree(folders, F)
            IN /\ DOMAIN r.w.folders = DOMAIN folders \ gone
               /\ \A f \in DOMAIN r.w.folders : r.w.folders[f] = folders[f]
               /\ DOMAIN r.w.metadata = DOMAIN metadata
               /\ \A d \in DOMAIN metadata :
                    r.w.metadata[d].folder_id =
                      IF metadata[d].deleted_at = 0 /\ metadata[d].folder_id \in gone
                      THEN folders[F].parent_id
                      ELSE metadata[d].folder_id

(* C14 witness: folder f2, created in f1 and holding a document, has been  *)
(* deleted, and the document is now in f1, file and record.                *)
DocumentMovedUpToParent ==
  /\ Did("folder.delete")
  /\ Has(folders, FolderId(1))
  /\ ~Has(folders, FolderId(2))
  /\ \E d \in DOMAIN metadata :
       /\ metadata[d].folder_id = FolderId(1)
       /\ metadata[d].file_path = folders[FolderId(1)].dir_name \o <<d>>
       /\ Has(disk.files, metadata[d].file_path)

(* C15, as stated: a delete of folder F that succeeds keeps every child    *)
(* folder of F, with F's former parent as its parent.                      *)
ChildFoldersSurviveDelete ==
  \A req \in TreeDeleteRequests :
    LET F == req.id
        r == Handle(World, req)
    IN (Has(folders, F) /\ Succeeds(r)) =>
         \A c \in Children(folders, F) :
           /\ Has(r.w.folders, c)
           /\ r.w.folders[c].parent_id = folders[F].parent_id

(* C15, amended: a delete of folder F that succeeds removes every child    *)
(* folder of F as well; no child is reparented, and no folder that remains *)
(* names a removed folder as its parent.                                   *)
ChildFoldersDeletedWithParent ==
  \A req \in TreeDeleteRequests :
    LET F == req.id
        r == Handle(World, req)
    IN (Has(folders, F) /\ Succeeds(r)) =>
         /\ \A c \in Children(folders, F) : ~Has(r.w.folders, c)
         /\ \A f \in DOMAIN r.w.folders :
              r.w.folders[f].parent_id = NULL \/ Has(r.w.folders, r.w.folders[f].parent_id)
         /\ Len(r.w.audit_logs) = Len(audit_logs) + 1
         /\ r.w.audit_logs[Len(r.w.audit_logs)].metadata.deleted_count
              = Cardinality(DOMAIN folders) - Cardinality(DOMAIN r.w.folders)

(* C15 witness: folder f1 has been deleted together with a folder below    *)
(* it, and a folder created at the root is still there.                    *)
ParentAndChildDeleted ==
  /\ \E i \in 1..Len(audit_logs) :
       /\ audit_logs[i].action = "folder.delete"
       /\ audit_logs[i].resource_id = FolderId(1)
       /\ audit_logs[i].metadata.deleted_count = 2
  /\ DOMAIN folders = {FolderId(3)}

(* No two folders with one parent have one dir_name. *)
SiblingsUnique(fs) ==
  \A f, g \in DOMAIN fs :
    (f # g /\ fs[f].parent_id = fs[g].parent_id) => fs[f].dir_name # fs[g].dir_name

(* C16: no two sibling folders have the same dir_name, in the state        *)
(* reached by any sequence of requests and after any create or rename that *)
(* follows it.                                                             *)
SiblingDirNamesUnique ==
  /\ SiblingsUnique(folders)
  /\ \A req \in TreeCreateRequests \cup TreeRenameRequests :
       LET r == Handle(World, req)
       IN Succeeds(r) => SiblingsUnique(r.w.folders)

----------------------------------------------------------------------------
(* Properties of the folder tree, of requests in flight together. *)

(* No folder is its own ancestor. *)
Acyclic(fs) == \A f \in DOMAIN fs : f \notin Ancestors(fs, f, Cardinality(DOMAIN fs))

(* The step in which the handler of a move reads the folder table: if the  *)
(* new parent is the folder itself or lies below it in the table read, the *)
(* request is answered with a validation error and the table stays as it   *)
(* is.                                                                     *)
CycleAttemptRejected ==
  \A p \in Slots :
    (/\ procs[p].pc = "folder_update:0"
     /\ procs'[p] # procs[p]
     /\ Has(folders, procs[p].req.id)
     /\ Has(folders, procs[p].req.parent_id)
     /\ \/ procs[p].req.parent_id = procs[p].req.id
        \/ Below(folders, procs[p].req.parent_id, procs[p].req.id))
    => /\ procs'[p].pc = "done"
       /\ procs'[p].status = 400
       /\ procs'[p].body = [error |-> "validation_error"]
       /\ folders' = folders

(* C11: in every state, whatever the interleaving of the handlers' steps,  *)
(* no folder is its own ancestor along parent_id; and a move of a folder   *)
(* under itself or under a folder below it is rejected with a validation   *)
(* error and leaves the folder table unchanged.                            *)
FolderChainAcyclic == []Acyclic(folders) /\ [][CycleAttemptRejected]_vars

(* C11 witness: f3, created at the root, was moved under f2 while a move   *)
(* of f1 under f3 was in flight; the first move succeeded and the second   *)
(* was rejected, f3 lying below f1 by then.                                *)
MoveUnderDescendantRejected ==
  /\ procs[1].pc = "done"
  /\ procs[1].status = 200
  /\ procs[1].req.parent_id = FolderId(2)
  /\ procs[2].pc = "done"
  /\ procs[2].status = 400
  /\ procs[2].req.parent_id = FolderId(3)
  /\ Has(folders, FolderId(3))
  /\ folders[FolderId(3)].name = "A"
  /\ Below(folders, FolderId(3), FolderId(1))

(* C13: while a rename is being served, no state has the folder table      *)
(* carrying the folder's new dir_name and a live document record still     *)
(* carrying a file_path under the old one.                                 *)
RenameCascadeAtomic ==
  \A p \in Slots :
    (/\ procs[p].pc # "idle"
     /\ procs[p].req.op = "folder_update"
     /\ procs[p].req.name # UNDEF
     /\ procs[p].new_dir # procs[p].old_dir
     /\ Has(folders, procs[p].req.id)
     /\ folders[procs[p].req.id].dir_name = procs[p].new_dir)
    => \A d \in DOMAIN metadata : ~DocUnderDir(metadata[d], procs[p].old_dir)

----------------------------------------------------------------------------
(* Properties of the audit trail of mutations. *)

(* The tables a business operation changes. *)
StoreChanges ==
  \/ metadata' # metadata
  \/ versions' # versions
  \/ folders' # folders
  \/ shares' # shares
  \/ agent_tokens' # agent_tokens

(* C21: every completed request that changes a document, a version chain,  *)
(* a folder, a share or an agent token appends at least one audit entry,   *)
(* and every entry it appends records the actor type (user or agent), the  *)
(* action and the resource.                                                *)
MutationsAudited ==
  [][StoreChanges =>
       /\ Len(audit_logs') > Len(audit_logs)
       /\ Extends(audit_logs', audit_logs)
       /\ \A i \in (Len(audit_logs) + 1)..Len(audit_logs') :
            /\ audit_logs'[i].actor_type \in {"user", "agent"}
            /\ audit_logs'[i].action # ""
            /\ audit_logs'[i].resource_id # ""]_vars

----------------------------------------------------------------------------
(* Properties of the batch operations. *)

(* The file of document d is where its metadata says. *)
FileInPlace(d) == metadata[d].file_path \in DOMAIN disk.files

(* C22: a batch delete or a batch move with a non-empty id list (and, for  *)
(* a move, a target that is the root or an existing folder) succeeds as a  *)
(* whole whatever the state of the single ids: every live id of a batch    *)
(* delete is deleted and reported, and every live id of a batch move whose *)
(* file is in place is moved and reported, also when another id of the     *)
(* list is unknown, deleted or cannot be moved.                            *)
BatchIdsIndependent ==
  /\ \A ids \in IdLists \ {<<>>} :
       LET r == Handle(World, Request([op |-> "batch_delete", ids |-> ids]))
       IN /\ Succeeds(r)
          /\ \A d \in DocIds :
               (InSeq(d, ids) /\ Live(metadata, d))
               => ~Live(r.w.metadata, d) /\ InSeq(d, r.l.body.deleted)
  /\ \A ids \in IdLists \ {<<>>}, f \in {NULL} \cup DOMAIN folders :
       LET r == Handle(World, Request([op |-> "batch_move", ids |-> ids,
                                       folder_id |-> f]))
       IN /\ Succeeds(r)
          /\ \A d \in DocIds :
               (InSeq(d, ids) /\ Live(metadata, d) /\ FileInPlace(d))
               => r.w.metadata[d].folder_id = f /\ InSeq(d, r.l.body.moved)

----------------------------------------------------------------------------
(* Properties of share links. *)

ShareTokens == {ShareToken(ShareId(i)) : i \in 1..MaxAudit} \cup {"nope"}

ResolveRequests ==
  {Request([op |-> "resolve_share", token |-> t, code |-> c]) :
     t \in ShareTokens, c \in Codes \cup {"other"}}

SharesWithToken(t) == {sid \in DOMAIN shares : shares[sid].token = t}

(* C23: resolving a share link changes nothing and is answered, in this    *)
(* order: not_found when no existing share has the token (never issued, or *)
(* revoked); forbidden when the share has an access code and the supplied  *)
(* code differs; not_found when the target document is missing or          *)
(* soft-deleted; otherwise the document with its raw content.  So content  *)
(* is returned only for an existing share, a matching code and a live      *)
(* document.                                                               *)
ResolveShareGuarded ==
  \A req \in ResolveRequests :
    LET r == Handle(World, req)
        hits == SharesWithToken(req.token)
    IN /\ r.w = World
       /\ IF hits = {} THEN Fails(r, 404, "not_found")
          ELSE \E sid \in hits :
                 LET share == shares[sid]
                     d == share.document_id
                 IN IF share.access_code # NULL /\ share.access_code # req.code
                    THEN Fails(r, 403, "forbidden")
                    ELSE IF ~Has(metadata, d) \/ metadata[d].deleted_at # 0
                    THEN Fails(r, 404, "not_found")
                    ELSE /\ r.l.pc = "done" /\ r.l.status = 200
                         /\ r.l.body.summary.id = d
                         /\ r.l.body.content_md = disk.files[metadata[d].file_path]

(* C23 witness: a live document shared under an access code: the link      *)
(* resolves to the content with the code and is refused with another.      *)
CodedShareResolved ==
  \E sid \in DOMAIN shares :
    /\ shares[sid].access_code = "pw"
    /\ Did("share.create")
    /\ Has(metadata, shares[sid].document_id)
    /\ metadata[shares[sid].document_id].deleted_at = 0
    /\ Succeeds(Handle(World, Request([op |-> "resolve_share",
                                       token |-> shares[sid].token, code |-> "pw"])))
    /\ Fails(Handle(World, Request([op |-> "resolve_share",
                                    token |-> shares[sid].token, code |-> "other"])),
             403, "forbidden")

----------------------------------------------------------------------------
(* Properties of the chunks endpoint. *)

(* max_tokens as a client may send it; 0 for none. *)
ChunkBudgets == {0, 64, 130, 9999}

(* The budget in force for a max_tokens of q. *)
Effective(q) ==
  IF q = 0 THEN 1024 ELSE IF q < 128 THEN 128 ELSE IF q > 4096 THEN 4096 ELSE q

LiveDocs == {d \in DOMAIN metadata : metadata[d].deleted_at = 0}

(* The lines of the body of d: the file without its front matter. *)
BodyOf(d) == disk.files[metadata[d].file_path].lines

ChunksOf(d, q) ==
  Handle(World, Request([op |-> "chunks", id |-> d, max_tokens |-> q])).l.body.chunks

(* The characters of a line. *)
RawLine(ln) ==
  IF ln.level = 0 THEN ln.text
  ELSE <<"#", "##", "###", "####", "#####", "######">>[ln.level] \o " " \o ln.text

(* A string, as the pieces its newlines separate: lines.join('\n'). *)
RawText(lines) == [i \in 1..Len(lines) |-> RawLine(lines[i])]

(* a + b on such strings: the last piece of a runs on into the first of b. *)
ConcatText(a, b) ==
  SubSeq(a, 1, Len(a) - 1) \o <<a[Len(a)] \o b[1]>> \o Tail(b)

RECURSIVE ConcatChunks(_)
ConcatChunks(chunks) ==
  IF chunks = <<>> THEN <<"">>
  ELSE ConcatText(RawText(Head(chunks).text), ConcatChunks(Tail(chunks)))

(* C24: for every document body and every max_tokens, the texts of the     *)
(* returned chunks, concatenated in index order, are the body, character   *)
(* for character.                                                          *)
ChunksConcatToBody ==
  \A d \in LiveDocs, q \in ChunkBudgets :
    ConcatChunks(ChunksOf(d, q)) = RawText(BodyOf(d))

(* C25: every returned chunk's token_count_estimate is at most the budget  *)
(* in force, unless the chunk is a single line whose own estimate exceeds  *)
(* the budget.                                                             *)
ChunkWithinBudget ==
  \A d \in LiveDocs, q \in ChunkBudgets :
    LET cs == ChunksOf(d, q)
    IN \A i \in 1..Len(cs) :
         \/ cs[i].token_count_estimate <= Effective(q)
         \/ /\ Len(cs[i].text) = 1
            /\ (Len(RawLine(cs[i].text[1])) + 3) \div 4 > Effective(q)

(* C26: the line ranges of the chunks partition the body: the first chunk  *)
(* starts at line 1, each next chunk starts one line after the end of the  *)
(* chunk before, the last chunk ends at the last line, every chunk has at  *)
(* least one line, and a chunk's text is the lines start_line..end_line.   *)
ChunkLinesPartitionBody ==
  \A d \in LiveDocs, q \in ChunkBudgets :
    LET cs == ChunksOf(d, q)
        body == BodyOf(d)
    IN /\ Len(cs) >= 1
       /\ cs[1].start_line = 1
       /\ cs[Len(cs)].end_line = Len(body)
       /\ \A i \in 1..Len(cs) :
            /\ cs[i].index = i - 1
            /\ cs[i].start_line <= cs[i].end_line
            /\ cs[i].text = SubSeq(body, cs[i].start_line, cs[i].end_line)
            /\ i > 1 => cs[i].start_line = cs[i - 1].end_line + 1

(* C26 witness: an uploaded body of three lines that the smallest budget   *)
(* cuts into a chunk of two lines and a chunk of one.                      *)
BodyCutInTwo ==
  /\ Did("document.create")
  /\ \E d \in LiveDocs :
       LET cs == ChunksOf(d, 64)
       IN /\ Len(BodyOf(d)) = 3
          /\ Len(cs) = 2
          /\ Len(cs[1].text) = 2

(* The heading stack after the first n lines of a body. *)
RECURSIVE PathAt(_, _)
PathAt(body, n) ==
  IF n = 0 THEN <<>>
  ELSE LET p == PathAt(body, n - 1)
       IN IF body[n].level > 0 THEN PushHeading(p, body[n].level, body[n].text) ELSE p

(* C28: the heading_path of a chunk is the heading stack as of the chunk's *)
(* own last line: no heading of a later line is in it.                     *)
HeadingPathAsOfLastLine ==
  \A d \in LiveDocs, q \in ChunkBudgets :
    LET cs == ChunksOf(d, q)
    IN \A i \in 1..Len(cs) : cs[i].heading_path = PathAt(BodyOf(d), cs[i].end_line)

----------------------------------------------------------------------------
(* Properties of the order of List. *)

SortQueries ==
  {Request([op |-> "list", sort_by |-> f, sort_order |-> o]) :
     f \in {"updated_at", "created_at", "title"}, o \in {"asc", "desc"}}

(* Document ids are uuidv4() values: which of two documents has the        *)
(* smaller id is chance.  A rank gives the ids of the model one of the     *)
(* orders their values can have.                                           *)
UuidOrders ==
  {rank \in [DocIds -> 1..MaxDocs] : \A d, e \in DocIds : d # e => rank[d] # rank[e]}

(* data is in the order of the sort field of req, and where two documents  *)
(* follow each other with the same value their ids are in direction dir.   *)
SortedWithIdTiebreak(data, req, rank, dir) ==
  \A i \in 1..(Len(data) - 1) :
    LET av == SortKey(data[i], req.sort_by)
        bv == SortKey(data[i + 1], req.sort_by)
        c == IF req.sort_order = "asc" THEN av - bv ELSE bv - av
    IN \/ c < 0
       \/ c = 0 /\ dir * (rank[data[i].id] - rank[data[i + 1].id]) < 0

(* C27: List returns the documents in the order of the sort field, and     *)
(* documents with the same value of the field in the order of their ids    *)
(* (ascending or descending, the same for all), whatever the ids are.      *)
ListTiesBrokenById ==
  \A req \in SortQueries :
    \E dir \in {1, 0 - 1} :
      \A rank \in UuidOrders :
        SortedWithIdTiebreak(Handle(World, req).l.body.data, req, rank, dir)

----------------------------------------------------------------------------
(* Properties of rejected requests. *)

(* Requests of every route that can be rejected, from users, from agents   *)
(* and without a valid credential.                                         *)
ProbeRequests ==
  UploadRequests \cup UpdateRequests \cup RollbackRequests \cup DeleteRequests
  \cup BatchDeleteRequests \cup BatchMoveRequests
  \cup ShareRequests \cup UnshareRequests \cup ResolveRequests
  \cup FolderCreateRequests \cup FolderUpdateRequests \cup FolderDeleteRequests
  \cup TokenRequests \cup ScopedRequests
  \cup {Request([op |-> "delete", id |-> DocId(1), cred |-> BadJwt]),
        Request([op |-> "folder_create", name |-> "", parent_id |-> NULL]),
        Request([op |-> "update", id |-> DocId(1), folder_id |-> FolderId(3),
                 cred |-> AgentCred(SecretA2)])}

RejectedByRule(r) ==
  \/ Fails(r, 400, "validation_error")
  \/ Fails(r, 404, "not_found")
  \/ Fails(r, 401, "unauthorized")
  \/ Fails(r, 403, "forbidden")

(* C29: a request answered validation_error, not_found, unauthorized or    *)
(* forbidden leaves the documents and their files, the version chains, the *)
(* folders, the shares, the audit log and the idempotency store as they    *)
(* were.                                                                   *)
RejectionChangesNothing ==
  \A req \in ProbeRequests :
    LET r == Handle(World, req)
    IN RejectedByRule(r) =>
         /\ r.w.metadata = metadata
         /\ r.w.versions = versions
         /\ r.w.folders = folders
         /\ r.w.shares = shares
         /\ r.w.audit_logs = audit_logs
         /\ r.w.idempotency_keys = idempotency_keys
         /\ r.w.disk = disk

(* C29 witness: a store with a document of one version and a token that    *)
(* may only read, where a rollback to version 3, an update into a folder   *)
(* that does not exist and an update by the token's agent are rejected.    *)
RejectedThreeWays ==
  /\ Live(metadata, DocId(1))
  /\ Did("document.create") /\ Did("agent_token.create")
  /\ Fails(Handle(World, Request([op |-> "rollback", id |-> DocId(1),
                                  target_version |-> 3])),
           400, "validation_error")
  /\ Fails(Handle(World, Request([op |-> "update", id |-> DocId(1),
                                  folder_id |-> FolderId(1)])),
           400, "validation_error")
  /\ Fails(Handle(World, Request([op |-> "update", id |-> DocId(1), has_content |-> TRUE,
                                  content_md |-> TextB, cred |-> AgentCred(SecretA)])),
           403, "forbidden")

----------------------------------------------------------------------------
(* Properties of the content Get serves. *)

(* C30: for every document that is not deleted, Get succeeds and its raw   *)
(* content is the content of the version row whose number is the           *)
(* document's latest_version.                                              *)
GetServesLatestVersion ==
  \A d \in DOMAIN metadata :
    metadata[d].deleted_at = 0 =>
      LET r == Handle(World, Request([op |-> "get", id |-> d]))
          rows == {i \in 1..Len(versions[d]) :
                     versions[d][i].version_number = metadata[d].latest_version}
      IN /\ r.l.pc = "done" /\ r.l.status = 200
         /\ rows # {}
         /\ \A i \in rows : r.l.body.content_md = versions[d][i].content_md

(* C30 witness: a document uploaded, updated with other content and rolled *)
(* back to version 1: Get serves the content of version 3, which is that   *)
(* of version 1 and not that of version 2.                                 *)
ServedAfterRollback ==
  \E d \in DOMAIN metadata :
    /\ metadata[d].deleted_at = 0
    /\ Did("document.rollback")
    /\ metadata[d].latest_version = 3
    /\ versions[d][3].content_md = versions[d][1].content_md
    /\ versions[d][3].content_md # versions[d][2].content_md
    /\ Handle(World, Request([op |-> "get", id |-> d])).l.body.content_md
         = versions[d][3].content_md

----------------------------------------------------------------------------
(* Properties of requests on one document in flight together. *)

(* The handler has answered success to a request that changes content. *)
ContentChanged(l) ==
  /\ l.pc = "done"
  /\ l.status = 200
  /\ l.req.op = "rollback" \/ (l.req.op = "update" /\ l.req.has_content)

(* C31: when two content-changing requests on one document have both     *)
(* returned success, the chain holds the uploaded version and both new     *)
(* versions, all under distinct version numbers, and latest_version is the *)
(* highest of them.                                                        *)
OverlappingEditsBothKept ==
  \A p, q \in Slots :
    (/\ p # q
     /\ ContentChanged(procs[p])
     /\ ContentChanged(procs[q])
     /\ procs[p].req.id = procs[q].req.id)
    => LET d == procs[p].req.id
           chain == versions[d]
           nums == {chain[i].version_number : i \in 1..Len(chain)}
       IN /\ Len(chain) >= 3
          /\ Cardinality(nums) = Len(chain)
          /\ \A n \in nums : n <= metadata[d].latest_version
          /\ metadata[d].latest_version \in nums

(* C32: in every state in which a SoftDelete of a document has returned    *)
(* success, the document is soft-deleted, whatever request on it was in    *)
(* flight when it was deleted and has completed since.                     *)
SoftDeleteSticks ==
  \A p \in Slots :
    (/\ procs[p].pc = "done"
     /\ procs[p].req.op = "delete"
     /\ procs[p].status = 204)
    => /\ Has(metadata, procs[p].req.id)
       /\ metadata[procs[p].req.id].deleted_at # 0

----------------------------------------------------------------------------
(* Properties of the scope of an Idempotency-Key. *)

KeyedRequests ==
  {req \in UploadRequests \cup UpdateRequests \cup RollbackRequests : req.key # NoKey}

(* req is answered with the response stored under its key, and not run. *)
Replayed(req) ==
  LET r == Handle(World, req)
  IN /\ Has(idempotency_keys, req.key)
     /\ r.l.pc = "done"
     /\ r.l.body = idempotency_keys[req.key].response
     /\ r.w = World

(* C33: a stored response is replayed only to a request for the operation  *)
(* and the resource of the request that stored it: of two requests under   *)
(* one key that differ in their operation or their document, at most one   *)
(* is answered from the store; the other one runs.                         *)
ReplayOnlyToSameRequest ==
  \A a, b \in KeyedRequests :
    (a.key = b.key /\ (a.op # b.op \/ a.id # b.id))
    => ~(Replayed(a) /\ Replayed(b))

----------------------------------------------------------------------------
(* Properties of a retry after a failure. *)

RetriedRequests ==
  {Request([op |-> "update", id |-> DocId(1), has_content |-> TRUE,
            content_md |-> TextB, key |-> "k1"]),
   Request([op |-> "rollback", id |-> DocId(1), target_version |-> 1, key |-> "k1"])}

(* C34: when a request under an Idempotency-Key has appended its version   *)
(* and then fails because the audit log cannot be written, so that no      *)
(* response is stored under the key, the retry under the same key appends  *)
(* no second version.                                                      *)
RetryAppliesOnce ==
  \A req \in RetriedRequests :
    LET first == Handle(World, [req EXCEPT !.fault = "audit_write"])
        retry == Handle(first.w, req)
    IN (/\ Fails(first, 500, "internal_error")
        /\ first.w.versions # versions
        /\ ~Has(first.w.idempotency_keys, req.key))
       => retry.w.versions = first.w.versions

(* C35: an update answered internal_error leaves the document as it was:   *)
(* its file, its version chain, and its metadata (latest_version,          *)
(* checksum, folder and path).                                             *)
FailedUpdateChangesNothing ==
  \A req \in UpdateRequests :
    LET r == Handle(World, [req EXCEPT !.fault = "audit_write"])
    IN Fails(r, 500, "internal_error")
       => /\ r.w.disk = disk
          /\ r.w.versions = versions
          /\ r.w.metadata = metadata

----------------------------------------------------------------------------
(* Properties of rollback as an update. *)

(* C36: a rollback of a document to version n leaves latest_version,       *)
(* checksum and token_count_estimate as an update whose content is that of *)
(* version n leaves them; the estimate is that of the restored content.    *)
RollbackAsUpdate ==
  \A d \in DOMAIN metadata, n \in 1..MaxVersions :
    LET content == versions[d][n].content_md
        rb == Handle(World, Request([op |-> "rollback", id |-> d, target_version |-> n]))
        up == Handle(World, Request([op |-> "update", id |-> d, has_content |-> TRUE,
                                     content_md |-> content]))
    IN (/\ metadata[d].deleted_at = 0
        /\ n <= Len(versions[d])
        /\ Succeeds(rb)
        /\ Succeeds(up))
       => /\ rb.w.metadata[d].latest_version = up.w.metadata[d].latest_version
          /\ rb.w.metadata[d].checksum = up.w.metadata[d].checksum
          /\ rb.w.metadata[d].token_count_estimate = up.w.metadata[d].token_count_estimate
          /\ rb.w.metadata[d].token_count_estimate = (TextLen(content) + 3) \div 4

----------------------------------------------------------------------------
(* Properties of the folder references of documents. *)

(* Every live document of table m is at the root or in a folder of fs. *)
FolderRefsValid(m, fs) ==
  \A d \in DOMAIN m :
    m[d].deleted_at = 0 => m[d].folder_id = NULL \/ m[d].folder_id \in DOMAIN fs

(* Moves of documents: by update and by batch move, to the root, to        *)
(* folders that may exist and to one that never does.                      *)
MoveRequests ==
  {Request([op |-> "update", id |-> d, folder_id |-> f]) :
     d \in DocIds, f \in {NULL, FolderId(1), FolderId(2), "f9"}}
  \cup {Request([op |-> "batch_move", ids |-> <<DocId(1), DocId(2)>>, folder_id |-> f]) :
          f \in {NULL, FolderId(1), FolderId(2), "f9"}}

(* C37: in every state reached by completed uploads and folder creates,    *)
(* renames, reparents and deletes, and after any one update or batch move  *)
(* from there, every document that is not deleted has folder_id null or    *)
(* the id of a folder that exists.                                         *)
DocumentFoldersExist ==
  /\ FolderRefsValid(metadata, folders)
  /\ \A req \in MoveRequests :
       LET r == Handle(World, req)
       IN FolderRefsValid(r.w.metadata, r.w.folders)

(* C37 witness: a live document in folder f2, which lies in f1; the delete *)
(* of f1 removes both folders and leaves the document at the root.         *)
NestedDocumentGoesToRoot ==
  \E d \in DOMAIN metadata :
    /\ metadata[d].deleted_at = 0
    /\ metadata[d].folder_id = FolderId(2)
    /\ Has(folders, FolderId(2))
    /\ folders[FolderId(2)].parent_id = FolderId(1)
    /\ LET r == Handle(World, Request([op |-> "folder_delete", id |-> FolderId(1)]))
       IN /\ Succeeds(r)
          /\ DOMAIN r.w.folders \cap {FolderId(1), FolderId(2)} = {}
          /\ r.w.metadata[d].folder_id = NULL

----------------------------------------------------------------------------
(* Properties of document files under folder operations. *)

(* C38: after any sequence of folder creates, renames, reparents and       *)
(* deletes (and uploads into the folders), every document that is not      *)
(* deleted has its file, and Get succeeds and returns the content that was *)
(* uploaded.                                                               *)
FolderOpsKeepContent ==
  \A d \in DOMAIN metadata :
    metadata[d].deleted_at = 0 =>
      LET r == Handle(World, Request([op |-> "get", id |-> d]))
      IN /\ Has(disk.files, metadata[d].file_path)
         /\ Succeeds(r)
         /\ r.l.body.content_md = versions[d][1].content_md

----------------------------------------------------------------------------
(* Properties of the token lookup. *)

(* C39: a request that presents the full secret of a stored token that has *)
(* not expired is never answered unauthorized, whatever other tokens are   *)
(* stored.                                                                 *)
IssuedSecretAuthenticates ==
  \A t \in DOMAIN agent_tokens : \A s \in Secrets :
    ( /\ agent_tokens[t].token_hash = sha256(s)
      /\ agent_tokens[t].expires_at = 0 \/ agent_tokens[t].expires_at >= now ) =>
      \A req \in ScopedRequests :
        (req.cred = AgentCred(s) /\ RouteAuth(req.op) = "agent") =>
          ~Fails(Handle(World, req), 401, "unauthorized")

====
